---- MODULE Spec2Model ----
(***************************************************************************)
(* A model of jianjungki/LangBot's cowork orchestration:                    *)
(*   - core/sandbox.py: SandboxManager and the DockerSandbox backend,       *)
(*   - provider/runners/cowork_runner.py: CoworkRunner._get_sandbox,        *)
(*     _run_agent_loop and run (the supervisor with its fan-out/fan-in).    *)
(* Every await that really suspends the coroutine (subprocess start/stop,   *)
(* model invocation, an awaited tool, asyncio.gather) ends an action; code  *)
(* between two suspension points is one atomic action.                      *)
(***************************************************************************)
EXTENDS Integers, Sequences, FiniteSets, TLC

\* ------------------------------------------------------------------ bounds
MaxReq == 2          \* concurrent callers of _get_sandbox
MaxSandboxes == 2    \* sandbox ids uuid4 may hand out in one run of the model
MaxDestroyers == 1   \* concurrent callers of destroy_sandbox

Sessions == {"s1", "s2"}
Procs == 1..MaxReq
Ids == 1..MaxSandboxes
Destroyers == 1..MaxDestroyers
NoSandbox == 0       \* "no id": dict.get() returned None / key absent

VARIABLES
  instances,     \* SandboxManager.instances: the set of registered sandbox ids
  container_id,  \* DockerSandbox.container_id is set (TRUE) or None (FALSE), per sandbox object
  sandbox_map,   \* CoworkRunner.sandbox_map: session id -> sandbox id (NoSandbox = no key)
  nextId,        \* the next id uuid.uuid4() hands out
  req,           \* the callers of _get_sandbox: position, session, result
  dst,           \* the callers of destroy_sandbox: position and id
  owner,         \* ghost: the session a sandbox was provisioned for
  destroyLog,    \* ghost: the (id, time) of every step of a destroy_sandbox call
  now,           \* ghost: logical time, one tick per call event
  lp,            \* the agent loops: position, history and locals of each _run_agent_loop call
  deviated,      \* environment: some model response already departed from its default
  sup,           \* the supervisor's run(): position, req_messages, locals, yielded messages
  keys,          \* SandboxManager.instances.keys(): the registered ids in insertion order
  cr,            \* the callers of create_sandbox: position, type, backend, id
  warnings,      \* ap.logger.warning: the ids whose creation logged the fallback
  sh,            \* the caller of shutdown: position, key snapshot, index
  got,           \* the last get_sandbox call: the id asked for and the result
  bk,            \* a DockerSandbox object used directly: position, container_id, processes
  tm,            \* the ToolManager's two registries: skills and remote (MCP) tools
  wf,            \* a cowork run_workflow call: position, conversation_state, model invocations
  tc,            \* the sandbox-bound tools of one agent loop: the tool set, the running call
  co             \* the delegated runs of one request on its sandbox: bindings, operations

sbVars == <<instances, container_id, sandbox_map, nextId, req, dst, owner, destroyLog, now,
            keys>>
mgrVars == <<cr, warnings, sh, got>>
extVars == <<mgrVars, bk, tm, wf, tc, co>>
nonMgrVars == <<lp, deviated, sup, bk, tm, wf, tc, co>>

IdleReq == [pc |-> "idle", sid |-> "none", sb |-> NoSandbox, creates |-> 0,
            hadLive |-> FALSE, beginT |-> 0, endT |-> 0]
IdleDst == [pc |-> "idle", id |-> NoSandbox]

InitSandbox ==
  /\ instances = {}
  /\ keys = <<>>
  /\ container_id = [i \in Ids |-> FALSE]
  /\ sandbox_map = [s \in Sessions |-> NoSandbox]
  /\ nextId = 1
  /\ req = [p \in Procs |-> IdleReq]
  /\ dst = [d \in Destroyers |-> IdleDst]
  /\ owner = [i \in Ids |-> "none"]
  /\ destroyLog = {}
  /\ now = 0

\* ------------------------------------------------- SandboxManager.get_sandbox
\* self.instances.get(sandbox_id): the instance, or None.
MgrGetSandbox(id) == IF id \in instances THEN id ELSE NoSandbox

\* --------------------------------------------- CoworkRunner._get_sandbox
\* Lines 59-62: the cached sandbox of the session, or NoSandbox when the session
\* has no key or the manager no longer knows the mapped id.
CachedSandboxNoLookup(s) == NoSandbox
CachedSandbox(s) ==
  IF sandbox_map[s] # NoSandbox THEN MgrGetSandbox(sandbox_map[s]) ELSE NoSandbox

\* _get_sandbox up to its first suspension: a cache hit returns at once (get_sandbox
\* never suspends); a miss calls create_sandbox("docker"), which draws a fresh id,
\* constructs the DockerSandbox and suspends in `await sandbox.start()`.
GetSandbox(p, s) ==
  /\ req[p].pc = "idle"
  /\ LET sb == CachedSandbox(s) IN
       IF sb # NoSandbox
       THEN /\ req' = [req EXCEPT ![p] = [pc |-> "returned", sid |-> s, sb |-> sb,
                                          creates |-> 0,
                                          hadLive |-> sandbox_map[s] \in instances,
                                          beginT |-> now + 1, endT |-> now + 2]]
            /\ now' = now + 2
            /\ UNCHANGED nextId
       ELSE /\ nextId <= MaxSandboxes
            /\ req' = [req EXCEPT ![p] = [pc |-> "starting", sid |-> s, sb |-> nextId,
                                          creates |-> 1,
                                          hadLive |-> sandbox_map[s] \in instances,
                                          beginT |-> now + 1, endT |-> 0]]
            /\ now' = now + 1
            /\ nextId' = nextId + 1
  /\ UNCHANGED <<instances, keys, container_id, sandbox_map, dst, owner, destroyLog>>
  /\ UNCHANGED extVars

\* DockerSandbox.start succeeded (docker run exited 0): container_id is set;
\* create_sandbox registers the instance and returns it; _get_sandbox records the
\* session's mapping and returns. No suspension point lies between these.
StartOkKeepsStaleKey(p) ==
  /\ req[p].pc = "starting"
  /\ container_id' = [container_id EXCEPT ![req[p].sb] = TRUE]
  /\ instances' = instances \cup {req[p].sb}
  /\ keys' = Append(keys, req[p].sb)
  /\ owner' = [owner EXCEPT ![req[p].sb] = req[p].sid]
  /\ sandbox_map' = IF sandbox_map[req[p].sid] = NoSandbox
                     THEN [sandbox_map EXCEPT ![req[p].sid] = req[p].sb]
                     ELSE sandbox_map
  /\ req' = [req EXCEPT ![p].pc = "returned", ![p].endT = now + 1]
  /\ now' = now + 1
  /\ UNCHANGED <<nextId, dst, destroyLog>>
  /\ UNCHANGED extVars
StartOk(p) ==
  /\ req[p].pc = "starting"
  /\ container_id' = [container_id EXCEPT ![req[p].sb] = TRUE]
  /\ instances' = instances \cup {req[p].sb}
  /\ keys' = Append(keys, req[p].sb)
  /\ owner' = [owner EXCEPT ![req[p].sb] = req[p].sid]
  /\ sandbox_map' = [sandbox_map EXCEPT ![req[p].sid] = req[p].sb]
  /\ req' = [req EXCEPT ![p].pc = "returned", ![p].endT = now + 1]
  /\ now' = now + 1
  /\ UNCHANGED <<nextId, dst, destroyLog>>
  /\ UNCHANGED extVars

\* DockerSandbox.start failed (docker run exited non-zero): the exception leaves
\* create_sandbox and _get_sandbox; nothing is registered or mapped.
StartFailRecordsMap(p) ==
  /\ req[p].pc = "starting"
  /\ req' = [req EXCEPT ![p].pc = "raised", ![p].sb = NoSandbox, ![p].endT = now + 1]
  /\ now' = now + 1
  /\ sandbox_map' = [sandbox_map EXCEPT ![req[p].sid] = req[p].sb]
  /\ UNCHANGED <<instances, keys, container_id, nextId, dst, owner, destroyLog>>
  /\ UNCHANGED extVars
StartFail(p) ==
  /\ req[p].pc = "starting"
  /\ req' = [req EXCEPT ![p].pc = "raised", ![p].sb = NoSandbox, ![p].endT = now + 1]
  /\ now' = now + 1
  /\ UNCHANGED <<instances, keys, container_id, sandbox_map, nextId, dst, owner, destroyLog>>
  /\ UNCHANGED extVars

\* ------------------------------------------ SandboxManager.destroy_sandbox
\* `del self.instances[sandbox_id]`: the other keys keep their order.
DelKey(ks, id) == SelectSeq(ks, LAMBDA k : k # id)

\* destroy_sandbox(id) up to its first suspension. An unregistered id: nothing
\* happens. A registered one whose container is up suspends in `await
\* sandbox.stop()`; a registered one with no container is deleted at once
\* (stop() returns without suspending).
DestroyBegin(d, id) ==
  /\ dst[d].pc = "idle"
  /\ IF id \notin instances
     THEN /\ dst' = [dst EXCEPT ![d] = [pc |-> "done", id |-> id]]
          /\ UNCHANGED <<instances, keys, destroyLog, now>>
     ELSE /\ now' = now + 1
          /\ destroyLog' = destroyLog \cup {[id |-> id, t |-> now + 1]}
          /\ IF container_id[id]
             THEN /\ dst' = [dst EXCEPT ![d] = [pc |-> "stopping", id |-> id]]
                  /\ UNCHANGED <<instances, keys>>
             ELSE /\ dst' = [dst EXCEPT ![d] = [pc |-> "done", id |-> id]]
                  /\ instances' = instances \ {id}
                  /\ keys' = DelKey(keys, id)
  /\ UNCHANGED <<container_id, sandbox_map, nextId, req, owner>>
  /\ UNCHANGED extVars

\* docker stop returned: stop() clears container_id, destroy_sandbox deletes the
\* key (KeyError when an overlapping destroy_sandbox already deleted it).
DestroyEndKeepsEntry(d) ==
  /\ dst[d].pc = "stopping"
  /\ container_id' = [container_id EXCEPT ![dst[d].id] = FALSE]
  /\ dst' = [dst EXCEPT ![d].pc = "done"]
  /\ now' = now + 1
  /\ destroyLog' = destroyLog \cup {[id |-> dst[d].id, t |-> now + 1]}
  /\ UNCHANGED <<instances, keys, sandbox_map, nextId, req, owner>>
  /\ UNCHANGED extVars
DestroyEnd(d) ==
  /\ dst[d].pc = "stopping"
  /\ container_id' = [container_id EXCEPT ![dst[d].id] = FALSE]
  /\ IF dst[d].id \in instances
     THEN /\ instances' = instances \ {dst[d].id}
          /\ keys' = DelKey(keys, dst[d].id)
          /\ dst' = [dst EXCEPT ![d].pc = "done"]
     ELSE /\ dst' = [dst EXCEPT ![d].pc = "raised"]
          /\ UNCHANGED <<instances, keys>>
  /\ now' = now + 1
  /\ destroyLog' = destroyLog \cup {[id |-> dst[d].id, t |-> now + 1]}
  /\ UNCHANGED <<sandbox_map, nextId, req, owner>>
  /\ UNCHANGED extVars

\* `docker stop` could not be spawned (create_subprocess_exec raised): the
\* exception leaves stop() and destroy_sandbox; container_id and the registry
\* entry stay as they were.
DestroyStopFail(d) ==
  /\ dst[d].pc = "stopping"
  /\ dst' = [dst EXCEPT ![d].pc = "raised"]
  /\ now' = now + 1
  /\ destroyLog' = destroyLog \cup {[id |-> dst[d].id, t |-> now + 1]}
  /\ UNCHANGED <<instances, keys, container_id, sandbox_map, nextId, req, owner>>
  /\ UNCHANGED extVars

\* The manager and _get_sandbox alone: callers and destroyers in any interleaving.
NextSandbox ==
  \/ \E p \in Procs, s \in Sessions : GetSandbox(p, s) /\ UNCHANGED <<lp, deviated, sup>>
  \/ \E p \in Procs : StartOk(p) /\ UNCHANGED <<lp, deviated, sup>>
  \/ \E p \in Procs : StartFail(p) /\ UNCHANGED <<lp, deviated, sup>>
  \/ \E d \in Destroyers, id \in Ids : DestroyBegin(d, id) /\ UNCHANGED <<lp, deviated, sup>>
  \/ \E d \in Destroyers : DestroyEnd(d) /\ UNCHANGED <<lp, deviated, sup>>
  \/ \E d \in Destroyers : DestroyStopFail(d) /\ UNCHANGED <<lp, deviated, sup>>

\* ------------------------------------------------------------------ C1
\* q's call is the next call of p's session after p's: p returned before q began,
\* no other call of that session overlaps the two or falls between them, and no
\* step of a destroy_sandbox call happened from p's start to q's return.
Consecutive(p, q) ==
  /\ p # q
  /\ req[p].pc = "returned" /\ req[q].pc = "returned"
  /\ req[p].sid = req[q].sid
  /\ req[p].endT < req[q].beginT
  /\ \A r \in Procs \ {p, q} :
       (req[r].pc # "idle" /\ req[r].sid = req[p].sid) =>
          \/ req[r].pc \in {"returned", "raised"} /\ req[r].endT < req[p].beginT
          \/ req[r].beginT > req[q].endT
  /\ \A e \in destroyLog : e.t < req[p].beginT \/ e.t > req[q].endT

\* C1: two consecutive, non-overlapping _get_sandbox calls of one session with no
\* destroy in between return the same sandbox, the second call never provisions,
\* and create_sandbox is invoked exactly once across both when the session had no
\* live sandbox before the first call (and not at all when it had one).
C1_IdempotentAcquisition ==
  \A p, q \in Procs :
    Consecutive(p, q) =>
      /\ req[p].sb = req[q].sb
      /\ req[q].creates = 0
      /\ req[p].creates + req[q].creates = (IF req[p].hadLive THEN 0 ELSE 1)

\* The test's scenario: the first call provisioned, the next one has returned.
C1_Witness ==
  \E p, q \in Procs : Consecutive(p, q) /\ ~req[p].hadLive /\ req[p].creates = 1

\* ------------------------------------------------------------------ C2
\* C2: for every session, at most one sandbox provisioned for it is registered
\* in the manager at any time, whatever the interleaving of _get_sandbox calls.
C2_AtMostOneLiveSandboxPerSession ==
  \A s \in Sessions : Cardinality({i \in instances : owner[i] = s}) <= 1

\* ======================================================================
\*                CoworkRunner._run_agent_loop (the agent turn loop)
\* ======================================================================
MaxCalls == 2        \* tool calls one model response may carry
MaxDelegations == 2  \* delegate calls one supervisor response may carry

max_turns == 10
Sentinel == <<"Agent execution timed out (max turns reached).">>

Loops == 1..MaxDelegations   \* one agent loop per delegate call position
NoTool == "None"

\* CoworkRunner.agents: the declared tool names of each registered agent.
AgentNames == {"supervisor", "researcher", "coder"}
AgentTools(a) ==
  CASE a = "supervisor" -> <<"delegate_to_agent">>
    [] a = "researcher" -> <<>>
    [] a = "coder" -> <<"write_file", "read_file", "exec_command">>

SeqRange(s) == {s[i] : i \in 1..Len(s)}

\* _get_sandbox_tools: the three sandbox-bound tools, in the order returned.
SandboxTools == <<"write_file", "read_file", "exec_command">>

\* Lines 162-164: the loop's tool set.
LoopToolsOf(declared) == IF "write_file" \in SeqRange(declared) THEN SandboxTools ELSE <<>>
LoopTools(a) == LoopToolsOf(AgentTools(a))

\* Line 185: next((t for t in tools if t.name == name), None)
ResolveTool(tools, name) == IF name \in SeqRange(tools) THEN name ELSE NoTool

\* The argument payloads a model may send, as <<form, values...>>: a JSON object
\* that fits the tool's parameters ("valid", followed by the values it carries),
\* JSON that parses but does not fit them, and text that is not JSON.
Payloads == {<<"valid">>, <<"badshape">>, <<"unparsable">>}

\* json.loads: raises JSONDecodeError on text that is not JSON.
JsonLoads(payload) ==
  IF payload[1] = "unparsable"
  THEN [ok |-> FALSE, value |-> <<>>, error |-> "JSONDecodeError"]
  ELSE [ok |-> TRUE, value |-> payload, error |-> ""]

\* func(**args): binding the parsed value to the parameters raises TypeError
\* unless it is an object with exactly the parameters' keys.
BindsArgs(value) == value[1] = "valid"

Msg(role, content) ==
  [role |-> role, content |-> content, tool_calls |-> <<>>, tool_call_id |-> <<>>, name |-> ""]
ToolMsg(content, call) ==
  [role |-> "tool", content |-> content, tool_calls |-> <<>>,
   tool_call_id |-> call.id, name |-> call.name]
AssistantMsg(content, calls) ==
  [role |-> "assistant", content |-> content, tool_calls |-> calls,
   tool_call_id |-> <<>>, name |-> ""]

\* The tool calls of a model response: names and payloads the model chose, ids
\* unique within the conversation.
CallNames == {"exec_command", "search"}
CallKinds == CallNames \X Payloads
KindSeqs == UNION {[1..n -> CallKinds] : n \in 0..MaxCalls}
MkCalls(ks, turn) ==
  [i \in 1..Len(ks) |-> [id |-> <<turn, i>>, name |-> ks[i][1], arguments |-> ks[i][2]]]
DefaultKinds == << <<"exec_command", <<"valid">>>> >>

loopVars == <<lp, deviated>>

OffLoop ==
  [pc |-> "off", agent |-> "", tools |-> <<>>, messages |-> <<>>, turn |-> 0,
   calls |-> <<>>, idx |-> 0, tool_results |-> <<>>, result |-> <<>>, error |-> "",
   invoked |-> 0, faulted |-> {}, dflt |-> "final", free |-> FALSE]

\* `for _ in range(max_turns)` is exhausted after the turn-th iteration.
RangeExhaustedEarly(turn) == turn >= max_turns - 1
RangeExhausted(turn) == turn >= max_turns

\* Lines 193-194: a fault raised by tool.func is caught; its text is the result.
CaptureFaultPropagates(st, e) == [st EXCEPT !.pc = "raised", !.error = "ToolFault"]
CaptureFault(st, e) ==
  [st EXCEPT !.tool_results = Append(@, ToolMsg(<<"Error: ", e>>, st.calls[st.idx])),
             !.faulted = @ \cup {st.calls[st.idx].id},
             !.idx = @ + 1]

\* Lines 184-206 from tool call st.idx on, up to the next suspension point: an
\* unresolved name is skipped, an unparsable payload raises out of the loop
\* (json.loads is outside the try), a payload that does not bind is a captured
\* TypeError, and a call that binds suspends in `await tool.func(**args)`. After
\* the last call the results are appended and the loop invokes the model again,
\* or returns the sentinel when the range is exhausted.
RECURSIVE Advance(_)
Advance(st) ==
  IF st.idx > Len(st.calls)
  THEN LET done == [st EXCEPT !.messages = @ \o st.tool_results, !.tool_results = <<>>] IN
       IF RangeExhausted(st.turn)
       THEN [done EXCEPT !.pc = "returned", !.result = Sentinel]
       ELSE [done EXCEPT !.pc = "invoke", !.invoked = @ + 1]
  ELSE LET call == st.calls[st.idx] IN
       IF ResolveTool(st.tools, call.name) = NoTool
       THEN Advance([st EXCEPT !.idx = @ + 1])
       ELSE LET args == JsonLoads(call.arguments) IN
            IF ~args.ok
            THEN [st EXCEPT !.pc = "raised", !.error = args.error]
            ELSE IF ~BindsArgs(args.value)
                 THEN LET c == CaptureFault(st, "TypeError") IN
                      IF c.pc = "raised" THEN c ELSE Advance(c)
                 ELSE [st EXCEPT !.pc = "tool_wait"]

\* Lines 156-176: the history starts as [system prompt, instruction], the tool set
\* is resolved, and the loop suspends in its first model invocation.
BeginLoop(agent, instruction, dflt) ==
  [OffLoop EXCEPT !.pc = "invoke", !.agent = agent, !.tools = LoopTools(agent),
                  !.messages = <<Msg("system", <<"system_prompt", agent>>),
                                 Msg("user", instruction)>>,
                  !.invoked = 1, !.dflt = dflt]

\* The model's reply to a conversation that needs no tool: a text that echoes the
\* instruction it was given.
FinalContent(st) == <<"Done: ">> \o st.messages[2].content

\* invoke_llm returned a message carrying the tool calls MkCalls(ks, turn) (none:
\* the final answer). Lines 180-206 up to the next suspension point.
ModelReturnNeverEnds(l, ks) ==
  /\ lp[l].pc = "invoke"
  /\ LET isDefault == ks = (IF lp[l].dflt = "tools" THEN DefaultKinds ELSE <<>>)
         turn == lp[l].turn + 1
         calls == MkCalls(ks, turn)
         content == IF ks = <<>> THEN FinalContent(lp[l]) ELSE <<"">>
         st == [lp[l] EXCEPT !.turn = turn,
                             !.messages = Append(@, AssistantMsg(content, calls)),
                             !.calls = calls, !.idx = 1, !.tool_results = <<>>,
                             !.free = ~isDefault]
     IN /\ isDefault \/ ~deviated
        /\ deviated' = (deviated \/ ~isDefault)
        /\ lp' = [lp EXCEPT ![l] =
                    Advance(st)]
ModelReturn(l, ks) ==
  /\ lp[l].pc = "invoke"
  /\ LET isDefault == ks = (IF lp[l].dflt = "tools" THEN DefaultKinds ELSE <<>>)
         turn == lp[l].turn + 1
         calls == MkCalls(ks, turn)
         content == IF ks = <<>> THEN FinalContent(lp[l]) ELSE <<"">>
         st == [lp[l] EXCEPT !.turn = turn,
                             !.messages = Append(@, AssistantMsg(content, calls)),
                             !.calls = calls, !.idx = 1, !.tool_results = <<>>,
                             !.free = ~isDefault]
     IN /\ isDefault \/ ~deviated
        /\ deviated' = (deviated \/ ~isDefault)
        /\ lp' = [lp EXCEPT ![l] =
                    IF calls = <<>>
                    THEN [st EXCEPT !.pc = "returned", !.result = content]
                    ELSE Advance(st)]

\* invoke_llm (or get_model_by_uuid) raised: the exception leaves the loop.
ModelFail(l) ==
  /\ lp[l].pc = "invoke"
  /\ lp' = [lp EXCEPT ![l].pc = "raised", ![l].error = "ModelError"]
  /\ UNCHANGED deviated

\* The awaited tool returned its text (lines 190, 196-201), or raised (lines
\* 193-194); then the loop runs on to its next suspension point.
ToolReturnPrepends(l, outcome) ==
  /\ lp[l].pc = "tool_wait"
  /\ outcome = "ok" \/ lp[l].free
  /\ LET st == lp[l]
         call == st.calls[st.idx]
     IN lp' = [lp EXCEPT ![l] =
                 IF outcome = "ok"
                 THEN Advance([st EXCEPT
                        !.tool_results = <<ToolMsg(<<"result of ", call.name>>, call)>> \o @,
                        !.idx = @ + 1])
                 ELSE LET c == CaptureFault(st, "Sandbox not started") IN
                      IF c.pc = "raised" THEN c ELSE Advance(c)]
  /\ UNCHANGED deviated
ToolReturnLeavesPending(l, outcome) ==
  /\ lp[l].pc = "tool_wait"
  /\ outcome = "ok" \/ lp[l].free
  /\ LET st == lp[l]
         call == st.calls[st.idx]
     IN lp' = [lp EXCEPT ![l] =
                 IF outcome = "ok"
                 THEN Advance([st EXCEPT !.idx = @ + 1])
                 ELSE LET c == CaptureFault(st, "Sandbox not started") IN
                      IF c.pc = "raised" THEN c ELSE Advance(c)]
  /\ UNCHANGED deviated
ToolReturn(l, outcome) ==
  /\ lp[l].pc = "tool_wait"
  /\ outcome = "ok" \/ lp[l].free
  /\ LET st == lp[l]
         call == st.calls[st.idx]
     IN lp' = [lp EXCEPT ![l] =
                 IF outcome = "ok"
                 THEN Advance([st EXCEPT
                        !.tool_results = Append(@, ToolMsg(<<"result of ", call.name>>, call)),
                        !.idx = @ + 1])
                 ELSE LET c == CaptureFault(st, "Sandbox not started") IN
                      IF c.pc = "raised" THEN c ELSE Advance(c)]
  /\ UNCHANGED deviated

\* One _run_agent_loop call, as delegate_to_agent makes it, for any registered
\* agent, with a model whose default is to answer at once or to keep calling tools.
StartLoop(agent, dflt) ==
  /\ lp[1].pc = "off"
  /\ lp' = [lp EXCEPT ![1] = BeginLoop(agent, <<"task">>, dflt)]
  /\ UNCHANGED deviated

\* One agent loop alone.
NextLoop ==
  \/ \E a \in AgentNames, d \in {"final", "tools"} :
        StartLoop(a, d) /\ UNCHANGED <<sbVars, sup, extVars>>
  \/ \E ks \in KindSeqs : ModelReturn(1, ks) /\ UNCHANGED <<sbVars, sup, extVars>>
  \/ ModelFail(1) /\ UNCHANGED <<sbVars, sup, extVars>>
  \/ \E o \in {"ok", "raise"} : ToolReturn(1, o) /\ UNCHANGED <<sbVars, sup, extVars>>

\* ------------------------------------------------------------ history helpers
\* The turn's tool handling is over: the loop is back in a model invocation or
\* has returned.
TurnComplete(st) == st.pc \in {"invoke", "returned"}

\* Some tool-result message of the sequence answers the call.
Answered(ms, call) ==
  \E k \in 1..Len(ms) : ms[k].role = "tool" /\ ms[k].tool_call_id = call.id

\* Every model response in the history carried tool calls.
AllCarryCalls(st) ==
  \A i \in 1..Len(st.messages) :
    st.messages[i].role = "assistant" => st.messages[i].tool_calls # <<>>

\* ------------------------------------------------------------------ C5
\* C5: a loop never invokes the model more than max_turns = 10 times; it returns
\* the sentinel only after exactly 10 invocations; and a loop that has returned
\* with every model response carrying tool calls returned the sentinel, after
\* exactly 10 invocations (a returned loop takes no further step).
C5_TurnBudget ==
  \A l \in Loops :
    /\ lp[l].invoked <= max_turns
    /\ (lp[l].pc = "returned" /\ lp[l].result = Sentinel) =>
          lp[l].invoked = max_turns /\ lp[l].turn = max_turns /\ AllCarryCalls(lp[l])
    /\ (lp[l].pc = "returned" /\ AllCarryCalls(lp[l])) =>
          lp[l].result = Sentinel /\ lp[l].invoked = max_turns

C5_Witness ==
  \E l \in Loops :
    /\ lp[l].pc = "returned" /\ lp[l].result = Sentinel
    /\ lp[l].invoked = max_turns /\ AllCarryCalls(lp[l])

\* ------------------------------------------------------------------ C6
\* C6: once a turn's tool handling is over, every tool call of the history whose
\* name does not resolve against the loop's tool set is answered by a tool-result
\* message with its call id (reporting the tool was not found), and the loop was
\* not aborted by it.
C6_UnresolvedToolReported ==
  \A l \in Loops :
    TurnComplete(lp[l]) =>
      \A i \in 1..Len(lp[l].messages) :
        \A j \in 1..Len(lp[l].messages[i].tool_calls) :
          LET call == lp[l].messages[i].tool_calls[j] IN
          ResolveTool(lp[l].tools, call.name) = NoTool => Answered(lp[l].messages, call)

\* ------------------------------------------------------------------ C7
\* C7: an unparsable argument payload of a call to a resolved tool never raises
\* out of the loop; once the turn's tool handling is over the call is answered by
\* a tool-result message carrying the captured error.
C7_MalformedPayloadCaptured ==
  \A l \in Loops :
    /\ lp[l].error # "JSONDecodeError"
    /\ TurnComplete(lp[l]) =>
         \A i \in 1..Len(lp[l].messages) :
           \A j \in 1..Len(lp[l].messages[i].tool_calls) :
             LET call == lp[l].messages[i].tool_calls[j] IN
             (ResolveTool(lp[l].tools, call.name) # NoTool /\ ~JsonLoads(call.arguments).ok)
                => Answered(lp[l].messages, call)

\* ------------------------------------------------------------------ C8
\* C8: a fault raised by the invocation of a resolved tool never leaves the loop:
\* the call is answered by a tool-result message "Error: ..." with its id, the
\* loop moves on past the faulted call to the remaining calls of the turn, and
\* once the turn's tool handling is over (the loop is in its next model
\* invocation) every call of that turn that was invoked is answered in the history.
C8_ToolFaultCaptured ==
  \A l \in Loops :
    LET st == lp[l] IN
    /\ st.error # "ToolFault"
    /\ \A id \in st.faulted :
         /\ \E m \in SeqRange(st.messages) \cup SeqRange(st.tool_results) :
               m.role = "tool" /\ m.tool_call_id = id /\ m.content[1] = "Error: "
         /\ id[1] = st.turn => st.idx > id[2]
         /\ (id[1] < st.turn \/ TurnComplete(st)) =>
               \E i \in 1..Len(st.messages) :
                 /\ st.messages[i].role = "assistant"
                 /\ \E j \in 1..Len(st.messages[i].tool_calls) :
                       st.messages[i].tool_calls[j].id = id
                 /\ \A j \in 1..Len(st.messages[i].tool_calls) :
                       LET call == st.messages[i].tool_calls[j] IN
                       (ResolveTool(st.tools, call.name) # NoTool
                          /\ JsonLoads(call.arguments).ok)
                         => Answered(st.messages, call)

\* A turn of two calls: the first faulted and was captured, the second was still
\* executed and answered, and the loop is in its next model invocation.
C8_Witness ==
  \E l \in Loops :
    LET st == lp[l] IN
    /\ st.pc = "invoke" /\ st.turn >= 1
    /\ <<st.turn, 1>> \in st.faulted
    /\ \E m \in SeqRange(st.messages) :
          /\ m.role = "tool" /\ m.tool_call_id = <<st.turn, 1>>
          /\ m.content = <<"Error: ", "Sandbox not started">>
    /\ \E m \in SeqRange(st.messages) :
          m.role = "tool" /\ m.tool_call_id = <<st.turn, 2>> /\ m.content[1] # "Error: "

\* ======================================================================
\*        SandboxManager: create_sandbox, get_sandbox, shutdown
\* ======================================================================
\* The `type` argument of create_sandbox: the two the code knows and one it
\* does not.
SandboxTypes == {"docker", "firecracker", "qemu"}

\* The concurrent callers of create_sandbox.
Creators == {"c1", "c2"}

IdleCr == [pc |-> "idle", type |-> "none", backend |-> "none", id |-> NoSandbox,
           ret |-> NoSandbox, error |-> ""]
IdleShut == [pc |-> "idle", snapshot |-> <<>>, idx |-> 0, attempted |-> {}, error |-> ""]

InitManager ==
  /\ cr = [p \in Creators |-> IdleCr]
  /\ warnings = <<>>
  /\ sh = IdleShut
  /\ got = <<NoSandbox, NoSandbox>>

\* Line 171: the warning create_sandbox logs when it falls back to Docker.
FallbackWarningSilent(type, id) == warnings
FallbackWarning(type, id) ==
  IF type = "firecracker" THEN Append(warnings, id) ELSE warnings

\* create_sandbox up to its first suspension (lines 166-178): the id is drawn,
\* the backend object is chosen by type (an unknown type raises ValueError), and
\* the call suspends in `await sandbox.start()`.
CreateSandbox(p, type) ==
  /\ cr[p].pc = "idle"
  /\ nextId <= MaxSandboxes
  /\ nextId' = nextId + 1
  /\ warnings' = FallbackWarning(type, nextId)
  /\ cr' = [cr EXCEPT ![p] =
              IF type \in {"firecracker", "docker"}
              THEN [IdleCr EXCEPT !.pc = "starting", !.type = type,
                                  !.backend = "DockerSandbox", !.id = nextId]
              ELSE [IdleCr EXCEPT !.pc = "raised", !.type = type, !.id = nextId,
                                  !.error = "ValueError"]]
  /\ UNCHANGED <<instances, keys, container_id, sandbox_map, req, dst, owner,
                 destroyLog, now, sh, got>>

\* start() succeeded: container_id is set, the instance is registered under its
\* id (line 179) and returned.
CreateStartOk(p) ==
  /\ cr[p].pc = "starting"
  /\ container_id' = [container_id EXCEPT ![cr[p].id] = TRUE]
  /\ instances' = instances \cup {cr[p].id}
  /\ keys' = Append(keys, cr[p].id)
  /\ cr' = [cr EXCEPT ![p].pc = "returned", ![p].ret = cr[p].id]
  /\ UNCHANGED <<sandbox_map, nextId, req, dst, owner, destroyLog, now,
                 warnings, sh, got>>

\* start() raised (docker run exited non-zero): the exception leaves
\* create_sandbox before line 179; nothing is registered.
CreateStartFailRegistered(p) ==
  /\ cr[p].pc = "starting"
  /\ instances' = instances \cup {cr[p].id}
  /\ keys' = Append(keys, cr[p].id)
  /\ cr' = [cr EXCEPT ![p].pc = "raised", ![p].error = "LifecycleError"]
  /\ UNCHANGED <<container_id, sandbox_map, nextId, req, dst, owner,
                 destroyLog, now, warnings, sh, got>>
CreateStartFail(p) ==
  /\ cr[p].pc = "starting"
  /\ cr' = [cr EXCEPT ![p].pc = "raised", ![p].error = "LifecycleError"]
  /\ UNCHANGED <<instances, keys, container_id, sandbox_map, nextId, req, dst, owner,
                 destroyLog, now, warnings, sh, got>>

\* get_sandbox(id): a lookup; it never suspends.
Lookup(id) ==
  /\ got' = <<id, MgrGetSandbox(id)>>
  /\ UNCHANGED <<sbVars, cr, warnings, sh>>

\* shutdown from entry i of its key snapshot up to the next suspension: each
\* destroy_sandbox call skips an id that is no longer registered, suspends in
\* stop() when the container is up, and deletes the entry at once otherwise.
RECURSIVE Sweep(_)
Sweep(st) ==
  IF st.idx > Len(st.snapshot) THEN [st EXCEPT !.pc = "done"]
  ELSE LET id == st.snapshot[st.idx]
           att == [st EXCEPT !.attempted = @ \cup {id}]
       IN IF id \notin st.inst THEN Sweep([att EXCEPT !.idx = @ + 1])
          ELSE IF container_id[id] THEN [att EXCEPT !.pc = "stopping"]
          ELSE Sweep([att EXCEPT !.idx = @ + 1, !.inst = @ \ {id},
                                 !.ks = DelKey(@, id)])

ShutRecord(st) ==
  [pc |-> st.pc, snapshot |-> st.snapshot, idx |-> st.idx,
   attempted |-> st.attempted, error |-> st.error]

\* Line 192: list(self.instances.keys()) is taken once, then the sweep starts.
ShutdownBegin ==
  /\ sh.pc = "idle"
  /\ LET st == Sweep([pc |-> "sweep", snapshot |-> keys, idx |-> 1, attempted |-> {},
                      error |-> "", inst |-> instances, ks |-> keys])
     IN /\ sh' = ShutRecord(st)
        /\ instances' = st.inst
        /\ keys' = st.ks
  /\ UNCHANGED <<container_id, sandbox_map, nextId, req, dst, owner, destroyLog, now,
                 cr, warnings, got>>

\* stop() of the current entry returned: container_id is cleared, the entry is
\* deleted (KeyError when an overlapping destroy_sandbox already deleted it, and
\* the exception leaves shutdown), and the sweep goes on.
ShutdownStopOk ==
  /\ sh.pc = "stopping"
  /\ LET id == sh.snapshot[sh.idx] IN
       /\ container_id' = [container_id EXCEPT ![id] = FALSE]
       /\ IF id \in instances
          THEN LET st == Sweep([pc |-> "sweep", snapshot |-> sh.snapshot,
                                idx |-> sh.idx + 1, attempted |-> sh.attempted,
                                error |-> "", inst |-> instances \ {id},
                                ks |-> DelKey(keys, id)])
               IN /\ sh' = ShutRecord(st)
                  /\ instances' = st.inst
                  /\ keys' = st.ks
          ELSE /\ sh' = [sh EXCEPT !.pc = "raised", !.error = "KeyError"]
               /\ UNCHANGED <<instances, keys>>
  /\ UNCHANGED <<sandbox_map, nextId, req, dst, owner, destroyLog, now,
                 cr, warnings, got>>

\* stop() of the current entry raised: nothing catches it in destroy_sandbox or
\* in shutdown's loop, so the exception leaves shutdown.
ShutdownStopFail ==
  /\ sh.pc = "stopping"
  /\ sh' = [sh EXCEPT !.pc = "raised", !.error = "StopError"]
  /\ UNCHANGED <<sbVars, cr, warnings, got>>

\* The manager under concurrent callers of its four operations.
NextManager ==
  \/ \E p \in Creators, ty \in SandboxTypes : CreateSandbox(p, ty) /\ UNCHANGED nonMgrVars
  \/ \E p \in Creators : CreateStartOk(p) /\ UNCHANGED nonMgrVars
  \/ \E p \in Creators : CreateStartFail(p) /\ UNCHANGED nonMgrVars
  \/ \E id \in Ids : Lookup(id) /\ UNCHANGED nonMgrVars
  \/ \E d \in Destroyers, id \in Ids : DestroyBegin(d, id) /\ UNCHANGED nonMgrVars
  \/ \E d \in Destroyers : DestroyEnd(d) /\ UNCHANGED nonMgrVars
  \/ \E d \in Destroyers : DestroyStopFail(d) /\ UNCHANGED nonMgrVars
  \/ ShutdownBegin /\ UNCHANGED nonMgrVars
  \/ ShutdownStopOk /\ UNCHANGED nonMgrVars
  \/ ShutdownStopFail /\ UNCHANGED nonMgrVars

\* ======================================================================
\*                  DockerSandbox (one object, used directly)
\* ======================================================================
MaxOps == 6          \* calls made on the object in one run of the model

Lives == {"new", "start_failed", "started", "stopped"}
NoResult == <<0, "", "">>
TimedOut == <<-1, "", "Command timed out">>

\* The object after DockerSandbox(id): container_id is None, nothing ran yet.
NewBackend ==
  [pc |-> "idle", container_id |-> FALSE, life |-> "new", calls |-> 0,
   teardowns |-> 0, copies |-> 0, proc |-> "none", op |-> "none",
   outcome |-> "none", result |-> NoResult, refused |-> {}, spawned |-> FALSE]

InitBackend == bk = NewBackend

\* A call of `op` begins on the idle object.
Calling(op) == [bk EXCEPT !.calls = @ + 1, !.op = op, !.outcome = "pending",
                          !.result = NoResult, !.spawned = FALSE]

\* start() spawns `docker run` and suspends (lines 95-100).
BkStart ==
  /\ bk.pc = "idle" /\ bk.calls < MaxOps
  /\ bk' = [Calling("start") EXCEPT !.pc = "starting", !.spawned = TRUE]

\* docker run exited 0: container_id is set (line 103).
BkStartOk ==
  /\ bk.pc = "starting"
  /\ bk' = [bk EXCEPT !.pc = "idle", !.container_id = TRUE, !.life = "started",
                      !.outcome = "ok"]

\* docker run exited non-zero: start() raises and container_id keeps its value.
BkStartFail ==
  /\ bk.pc = "starting"
  /\ bk' = [bk EXCEPT !.pc = "idle", !.outcome = "raised",
                      !.life = IF bk.container_id THEN @ ELSE "start_failed"]

\* stop() (lines 105-113): with no container it returns at once; otherwise it
\* spawns `docker stop` and suspends.
BkStopUnguarded ==
  /\ bk.pc = "idle" /\ bk.calls < MaxOps
  /\ bk' = [Calling("stop") EXCEPT !.pc = "stopping", !.teardowns = @ + 1,
                                      !.spawned = TRUE]
BkStop ==
  /\ bk.pc = "idle" /\ bk.calls < MaxOps
  /\ bk' = IF bk.container_id
           THEN [Calling("stop") EXCEPT !.pc = "stopping", !.teardowns = @ + 1,
                                      !.spawned = TRUE]
           ELSE [Calling("stop") EXCEPT !.outcome = "ok"]

\* docker stop returned: container_id is cleared (line 113).
BkStopEnd ==
  /\ bk.pc = "stopping"
  /\ bk' = [bk EXCEPT !.pc = "idle", !.container_id = FALSE, !.life = "stopped",
                      !.outcome = "ok"]

\* `docker stop` could not be spawned: stop() raises, container_id is kept.
BkStopFail ==
  /\ bk.pc = "stopping"
  /\ bk' = [bk EXCEPT !.pc = "idle", !.outcome = "raised"]

\* execute_command (lines 116-123): raises when there is no container; otherwise
\* spawns `docker exec` and suspends in wait_for(process.communicate(), timeout).
BkExec ==
  /\ bk.pc = "idle" /\ bk.calls < MaxOps
  /\ bk' = IF ~bk.container_id
           THEN [Calling("execute_command") EXCEPT !.outcome = "raised"]
           ELSE [Calling("execute_command") EXCEPT !.pc = "exec", !.proc = "running",
                                                 !.spawned = TRUE]

\* The command ended within the timeout (line 127).
BkExecDone(rc) ==
  /\ bk.pc = "exec"
  /\ bk' = [bk EXCEPT !.pc = "idle", !.proc = "exited", !.outcome = "ok",
                      !.result = <<rc, "stdout", "stderr">>]

\* The timeout fired (lines 128-130): process.kill() sends SIGKILL and returns
\* without waiting for the process; the call returns the timeout triple. When
\* the call returns the process has ended already (after = "dead") or not yet
\* (after = "signalled").
BkExecTimeout(after) ==
  /\ bk.pc = "exec"
  /\ bk' = [bk EXCEPT !.pc = "idle", !.proc = after, !.outcome = "ok",
                      !.result = TimedOut]

\* The killed process ends.
BkProcEnds ==
  /\ bk.proc = "signalled"
  /\ bk' = [bk EXCEPT !.proc = "dead"]

\* upload_file / download_file (lines 132-152): raises when there is no
\* container; otherwise spawns `docker cp` and suspends.
BkCopyUnguarded(op) ==
  /\ bk.pc = "idle" /\ bk.calls < MaxOps
  /\ bk' = [Calling(op) EXCEPT !.pc = "copying", !.copies = @ + 1, !.spawned = TRUE]
BkCopy(op) ==
  /\ bk.pc = "idle" /\ bk.calls < MaxOps
  /\ bk' = IF ~bk.container_id
           THEN [Calling(op) EXCEPT !.outcome = "raised", !.refused = @ \cup {bk.life}]
           ELSE [Calling(op) EXCEPT !.pc = "copying", !.copies = @ + 1, !.spawned = TRUE]

\* docker cp returned (its exit status is not looked at).
BkCopyEnd ==
  /\ bk.pc = "copying"
  /\ bk' = [bk EXCEPT !.pc = "idle", !.outcome = "ok"]

backendRest == <<sbVars, loopVars, sup, mgrVars, tm, wf, tc, co>>

\* One caller using the object, one call after another.
NextBackend ==
  \/ BkStart /\ UNCHANGED backendRest
  \/ BkStartOk /\ UNCHANGED backendRest
  \/ BkStartFail /\ UNCHANGED backendRest
  \/ BkStop /\ UNCHANGED backendRest
  \/ BkStopEnd /\ UNCHANGED backendRest
  \/ BkStopFail /\ UNCHANGED backendRest
  \/ BkExec /\ UNCHANGED backendRest
  \/ \E rc \in {0, 1} : BkExecDone(rc) /\ UNCHANGED backendRest
  \/ \E after \in {"signalled", "dead"} : BkExecTimeout(after) /\ UNCHANGED backendRest
  \/ BkProcEnds /\ UNCHANGED backendRest
  \/ \E op \in {"upload_file", "download_file"} : BkCopy(op) /\ UNCHANGED backendRest
  \/ BkCopyEnd /\ UNCHANGED backendRest

\* ======================================================================
\*        ToolManager over SkillRegistry and MCPRegistry
\* ======================================================================
ToolNames == {"search", "fetch"}
Descriptions == {"d1", "d2"}

\* An LLMTool (name, description), and None.
LLMTool(name, description) == [name |-> name, description |-> description]
NoLLMTool == [name |-> "", description |-> ""]

\* A registry dict (name -> LLMTool) is the sequence of its values in insertion
\* order, one value per name.
EmptyRegistry == <<>>

\* d[tool.name] = tool: a new name is appended, a known name has its value
\* replaced in place.
DictSet(d, tool) ==
  IF \E i \in 1..Len(d) : d[i].name = tool.name
  THEN [i \in 1..Len(d) |-> IF d[i].name = tool.name THEN tool ELSE d[i]]
  ELSE Append(d, tool)

\* d.get(name)
DictGet(d, name) ==
  IF \E i \in 1..Len(d) : d[i].name = name
  THEN d[CHOOSE i \in 1..Len(d) : d[i].name = name]
  ELSE NoLLMTool

\* SkillRegistry.get_skill / get_all_skills, MCPRegistry.get_tool / get_all_tools.
GetSkill(name) == DictGet(tm.skills, name)
GetAllSkills == tm.skills
McpGetTool(name) == DictGet(tm.tools, name)
McpGetAllTools == tm.tools

\* ToolManager.get_tool: the skill set first, the remote set when it has none.
GetToolRemoteFirst(name) ==
  IF McpGetTool(name) = NoLLMTool THEN GetSkill(name) ELSE McpGetTool(name)
GetTool(name) ==
  IF GetSkill(name) = NoLLMTool THEN McpGetTool(name) ELSE GetSkill(name)

\* ToolManager.get_all_tools: skills + mcp_tools.
GetAllToolsDeduplicated ==
  GetAllSkills \o SelectSeq(McpGetAllTools, LAMBDA x : GetSkill(x.name) = NoLLMTool)
GetAllTools == GetAllSkills \o McpGetAllTools

\* The record of the last load_tools_from_server call and of the last
\* load_skills_from_definition call: none yet.
NoLoad == [kind |-> "", failure |-> FALSE, outcome |-> "", error |-> "", changed |-> FALSE]
NoParse == [doc |-> <<"none">>, outcome |-> "", skills |-> <<>>]

InitTools ==
  tm = [skills |-> EmptyRegistry, tools |-> EmptyRegistry,
        asked |-> "", found |-> NoLLMTool, listed |-> FALSE, all |-> <<>>,
        load |-> NoLoad, parsed |-> NoParse]

\* SkillRegistry.register_skill(skill). What was looked up before is forgotten.
RegisterSkill(name, description) ==
  tm' = [tm EXCEPT !.skills = DictSet(@, LLMTool(name, description)),
                   !.asked = "", !.found = NoLLMTool, !.listed = FALSE, !.all = <<>>]

\* MCPRegistry: self.tools[tool.name] = tool, for a tool a server sent.
RegisterRemoteTool(name, description) ==
  tm' = [tm EXCEPT !.tools = DictSet(@, LLMTool(name, description)),
                   !.asked = "", !.found = NoLLMTool, !.listed = FALSE, !.all = <<>>]

\* A caller asks get_tool(name), or get_all_tools().
CallGetTool(name) == tm' = [tm EXCEPT !.asked = name, !.found = GetTool(name)]
CallGetAllTools == tm' = [tm EXCEPT !.listed = TRUE, !.all = GetAllTools]

toolsRest == <<sbVars, loopVars, sup, mgrVars, bk, wf, tc, co>>

NextTools ==
  \/ \E n \in ToolNames, d \in Descriptions : RegisterSkill(n, d) /\ UNCHANGED toolsRest
  \/ \E n \in ToolNames, d \in Descriptions : RegisterRemoteTool(n, d) /\ UNCHANGED toolsRest
  \/ \E n \in ToolNames \cup {"nonexistent"} : CallGetTool(n) /\ UNCHANGED toolsRest
  \/ CallGetAllTools /\ UNCHANGED toolsRest

\* ======================================================================
\*   MCPRegistry.load_tools_from_server, SkillLoader.load_skills_from_definition
\* ======================================================================
MaxItems == 2        \* elements of a server's JSON array, <tool> children of a document

\* What a server may put in the array it sends: a tool object, an object that
\* lacks a required key, and a value that is not an object (a string, a number).
ToolDefs ==
  {[form |-> "tool", name |-> n, description |-> "d1"] : n \in ToolNames}
    \cup {[form |-> "no_description", name |-> "search", description |-> ""],
          [form |-> "not_object", name |-> "", description |-> ""]}

\* What requests.get(f"{server_url}/tools") and response.json() may lead to: the
\* connection is refused, the status is not a success, the body is not JSON, the
\* JSON is a non-empty object, a scalar, or an array.
Responses ==
  {[kind |-> k, items |-> <<>>] :
       k \in {"refused", "http_error", "not_json", "json_object", "json_scalar"}}
    \cup {[kind |-> "json_array", items |-> s] :
            s \in UNION {[1..n -> ToolDefs] : n \in 0..MaxItems}}

\* The load is one of the failures: no JSON came back, or the JSON is not an
\* array of objects.
IsFailedLoad(resp) ==
  \/ resp.kind # "json_array"
  \/ \E i \in 1..Len(resp.items) : resp.items[i].form = "not_object"

\* Lines 24-27 from item i on: _parse_mcp_tool returns None for an object that
\* lacks a key (KeyError is caught, lines 40-42) and the item is skipped; indexing
\* a value that is not an object raises TypeError, which nothing catches.
RECURSIVE ParseItems(_, _, _)
ParseItems(tools, items, i) ==
  IF i > Len(items) THEN [tools |-> tools, outcome |-> "returned", error |-> ""]
  ELSE CASE items[i].form = "tool" ->
              ParseItems(DictSet(tools, LLMTool(items[i].name, items[i].description)),
                         items, i + 1)
         [] items[i].form = "no_description" -> ParseItems(tools, items, i + 1)
         [] items[i].form = "not_object" ->
              [tools |-> tools, outcome |-> "raised", error |-> "TypeError"]

\* load_tools_from_server (lines 18-31): RequestException (refused connection,
\* raise_for_status) and ValueError (a body that is not JSON) are caught and
\* reported; iterating a JSON object yields its keys, strings, and iterating a
\* scalar raises TypeError.
LoadResult(resp) ==
  CASE resp.kind \in {"refused", "http_error", "not_json"} ->
         [tools |-> tm.tools, outcome |-> "returned", error |-> ""]
    [] resp.kind \in {"json_object", "json_scalar"} ->
         [tools |-> tm.tools, outcome |-> "raised", error |-> "TypeError"]
    [] resp.kind = "json_array" -> ParseItems(tm.tools, resp.items, 1)

LoadToolsFromServer(resp) ==
  LET r == LoadResult(resp) IN
  tm' = [tm EXCEPT !.tools = r.tools,
                   !.load = [kind |-> resp.kind, failure |-> IsFailedLoad(resp),
                             outcome |-> r.outcome, error |-> r.error,
                             changed |-> r.tools # tm.tools],
                   !.parsed = NoParse]

\* The children of a skill document's root: a <tool> with a <name> (and
\* well-formed parameters), a <tool> with no <name>, with an empty <name>, with a
\* <parameter> that lacks a tag, and an element that is not a <tool>.
Elements ==
  {[tag |-> "tool", name |-> n, params |-> "ok"] : n \in ToolNames}
    \cup {[tag |-> "tool", name |-> "missing", params |-> "ok"],
          [tag |-> "tool", name |-> "empty", params |-> "ok"],
          [tag |-> "tool", name |-> "search", params |-> "broken"],
          [tag |-> "note", name |-> "search", params |-> "ok"]}

\* A definition string: one that is not XML, the empty string, or a document
\* with these children under its root.
Documents ==
  {<<"not_xml">>, <<"empty">>}
    \cup {<<"xml">> \o s : s \in UNION {[1..n -> Elements] : n \in 0..MaxItems}}

\* _parse_xml_skill (lines 37-61): None for a missing or empty <name>, None when a
\* parameter's missing tag raises AttributeError, the LLMTool otherwise.
ParseXmlSkill(el) ==
  IF el.name \in {"missing", "empty"} THEN NoLLMTool
  ELSE IF el.params = "broken" THEN NoLLMTool
  ELSE LLMTool(el.name, "d1")

\* Lines 26-29 from child i on: the <tool> children are parsed in document
\* order and the ones that gave an LLMTool are collected.
RECURSIVE CollectSkillsStopAtFirstBad(_, _)
CollectSkillsStopAtFirstBad(doc, i) ==
  IF i > Len(doc) THEN <<>>
  ELSE IF doc[i].tag # "tool" THEN CollectSkillsStopAtFirstBad(doc, i + 1)
  ELSE IF ParseXmlSkill(doc[i]) = NoLLMTool THEN <<>>
  ELSE <<ParseXmlSkill(doc[i])>> \o CollectSkillsStopAtFirstBad(doc, i + 1)
RECURSIVE CollectSkills(_, _)
CollectSkills(doc, i) ==
  IF i > Len(doc) THEN <<>>
  ELSE IF doc[i].tag # "tool" THEN CollectSkills(doc, i + 1)
  ELSE IF ParseXmlSkill(doc[i]) = NoLLMTool THEN CollectSkills(doc, i + 1)
  ELSE <<ParseXmlSkill(doc[i])>> \o CollectSkills(doc, i + 1)

\* load_skills_from_definition (lines 23-33): ET.fromstring raises ParseError on
\* text that is not XML, the empty string included, and the result is [].
LoadSkills(doc) ==
  IF doc[1] # "xml" THEN <<>> ELSE CollectSkills(doc, 2)

\* d[skill.name] = skill for each skill of the list, in order.
RECURSIVE RegisterAll(_, _, _)
RegisterAll(d, skills, i) ==
  IF i > Len(skills) THEN d ELSE RegisterAll(DictSet(d, skills[i]), skills, i + 1)

\* ToolManager.load_skills_from_definition (toolmgr.py 15-18): the parsed skills
\* are registered one by one.
LoadSkillsFromDefinition(doc) ==
  LET skills == LoadSkills(doc) IN
  tm' = [tm EXCEPT !.skills = RegisterAll(@, skills, 1),
                   !.parsed = [doc |-> doc, outcome |-> "returned", skills |-> skills],
                   !.load = NoLoad]

NextLoaders ==
  \/ \E resp \in Responses : LoadToolsFromServer(resp) /\ UNCHANGED toolsRest
  \/ \E doc \in Documents : LoadSkillsFromDefinition(doc) /\ UNCHANGED toolsRest

\* ======================================================================
\*                  cowork CoworkRunner.run_workflow
\* ======================================================================
MaxAgents == 2       \* agents of a workflow

\* The AgentNodes a workflow may list: name, system_prompt, tool_names.
NoAgent == [name |-> "", system_prompt |-> "", tool_names |-> <<>>]
WfAgents ==
  {[name |-> "Supervisor", system_prompt |-> "You are a supervisor.",
    tool_names |-> <<"search", "ghost">>],
   [name |-> "Worker", system_prompt |-> "You are a worker.", tool_names |-> <<>>]}

\* WorkflowDefinition.agents and routing.get("start") ("" = no 'start' entry);
\* what llm_provider.generate may return.
AgentLists == UNION {[1..n -> WfAgents] : n \in 0..MaxAgents}
StartNames == {"", "Supervisor", "Worker", "Ghost"}
Outputs == {"o1", "o2"}

\* _get_agent_by_name: the first agent of the list with that name, or None.
GetAgentByName(agents, name) ==
  IF \E i \in 1..Len(agents) : agents[i].name = name
  THEN agents[CHOOSE i \in 1..Len(agents) :
                /\ agents[i].name = name
                /\ \A j \in 1..(i - 1) : agents[j].name # name]
  ELSE NoAgent

\* _prepare_prompt: the system prompt, then "User: " and the input, then
\* "Assistant:".
PreparePrompt(agent, user_input) ==
  agent.system_prompt \o "\n\nUser: " \o user_input \o "\n\nAssistant:"

\* Lines 57-58: get_tool for every declared name, the Nones filtered out.
RECURSIVE ResolveDeclared(_, _)
ResolveDeclared(names, i) ==
  IF i > Len(names) THEN <<>>
  ELSE IF GetTool(names[i]) = NoLLMTool THEN ResolveDeclared(names, i + 1)
  ELSE <<GetTool(names[i])>> \o ResolveDeclared(names, i + 1)

IdleWorkflow ==
  [pc |-> "idle", agents |-> <<>>, start |-> "", input |-> "", i |-> 0,
   user_input |-> "", history |-> <<>>, calls |-> <<>>, result |-> "", error |-> ""]

InitWorkflow == wf = IdleWorkflow

\* _execute_agent_turn up to its await (lines 54-63): the prompt and the tools
\* are prepared and generate is called.
ExecuteAgentTurn(w, agent, user_input) ==
  [w EXCEPT !.user_input = user_input,
            !.calls = Append(@, [agent |-> agent.name,
                                 prompt |-> PreparePrompt(agent, user_input),
                                 tools |-> ResolveDeclared(agent.tool_names, 1)])]

\* run_workflow up to its first await (lines 23-42): the start agent is looked
\* up and checked, then the agents are taken in list order.
RunWorkflow(agents, start, input) ==
  /\ wf.pc = "idle"
  /\ LET w == [wf EXCEPT !.agents = agents, !.start = start, !.input = input] IN
     IF start = ""
     THEN wf' = [w EXCEPT !.pc = "raised", !.error = "ValueError"]
     ELSE IF GetAgentByName(agents, start) = NoAgent
     THEN wf' = [w EXCEPT !.pc = "raised", !.error = "ValueError"]
     ELSE wf' = ExecuteAgentTurn([w EXCEPT !.pc = "running", !.i = 1], agents[1], input)

\* generate returns (lines 63-72, then 41-46): the turn is recorded, its response
\* is the next agent's input, and the last response is the result.
GenerateReturnSameInput(out) ==
  /\ wf.pc = "running"
  /\ LET w == [wf EXCEPT !.history = Append(@, [agent |-> wf.agents[wf.i].name,
                                                input |-> wf.user_input,
                                                response |-> out])] IN
     IF wf.i < Len(wf.agents)
     THEN wf' = ExecuteAgentTurn([w EXCEPT !.i = wf.i + 1], wf.agents[wf.i + 1], wf.input)
     ELSE wf' = [w EXCEPT !.pc = "returned", !.result = out]
GenerateReturn(out) ==
  /\ wf.pc = "running"
  /\ LET w == [wf EXCEPT !.history = Append(@, [agent |-> wf.agents[wf.i].name,
                                                input |-> wf.user_input,
                                                response |-> out])] IN
     IF wf.i < Len(wf.agents)
     THEN wf' = ExecuteAgentTurn([w EXCEPT !.i = wf.i + 1], wf.agents[wf.i + 1], out)
     ELSE wf' = [w EXCEPT !.pc = "returned", !.result = out]

\* generate raises: nothing catches it, run_workflow raises.
GenerateFail ==
  /\ wf.pc = "running"
  /\ wf' = [wf EXCEPT !.pc = "raised", !.error = "generate"]

workflowRest == <<sbVars, loopVars, sup, mgrVars, bk, tc, co>>

\* Skills are registered before the workflow runs.
NextWorkflow ==
  \/ \E n \in ToolNames : wf.pc = "idle" /\ RegisterSkill(n, "d1")
                          /\ UNCHANGED <<wf, workflowRest>>
  \/ \E a \in AgentLists, s \in StartNames, x \in {"hello"} :
       RunWorkflow(a, s, x) /\ UNCHANGED <<tm, workflowRest>>
  \/ \E o \in Outputs : GenerateReturn(o) /\ UNCHANGED <<tm, workflowRest>>
  \/ GenerateFail /\ UNCHANGED <<tm, workflowRest>>

\* ======================================================================
\*        CoworkRunner._get_sandbox_tools and the loop's tool set
\* ======================================================================
\* The tools lists an AgentNode may declare.
DeclaredLists ==
  {<<>>, <<"write_file", "read_file", "exec_command">>, <<"exec_command">>,
   <<"write_file">>, <<"read_file", "exec_command">>, <<"search">>,
   <<"write_file", "search">>}

\* The paths a model may name: os.path.dirname(path) is "", "." or a directory.
Paths == {"a.py", "./a.py", "src/a.py"}
Dirname(path) ==
  CASE path = "a.py" -> "" [] path = "./a.py" -> "." [] path = "src/a.py" -> "src"

\* What sandbox.execute_command may return: (code, stdout, stderr).
ExecResults == {<<0, "out", "">>, <<1, "", "err">>, <<-1, "", "Command timed out">>}

\* str(e) of what a backend operation may raise: the sandbox has no container,
\* the docker program cannot be run.
Faults == {"Sandbox not started", "No such file or directory: 'docker'"}

IdleSandboxTools ==
  [pc |-> "unbound", declared |-> <<>>, offered |-> <<>>, tool |-> "", path |-> "",
   scratch |-> 0, made |-> 0, outcome |-> "", text |-> "", fault |-> ""]

InitSandboxTools == tc = IdleSandboxTools

\* _run_agent_loop lines 161-164 for an AgentNode that declares these tools.
OfferTools(declared) ==
  /\ tc.pc = "unbound"
  /\ tc' = [tc EXCEPT !.pc = "idle", !.declared = declared,
                      !.offered = LoopToolsOf(declared)]

\* The loop awaits one tool.func(**args) at a time, on a tool of its set.
BeginCall(tool, path) ==
  [tc EXCEPT !.tool = tool, !.path = path, !.made = 0, !.outcome = "", !.text = "",
             !.fault = ""]
CanCall(tool) == tc.pc \in {"idle", "done"} /\ tool \in SeqRange(tc.offered)

\* The return through `except Exception` and `finally` (lines 84-88, 99-103):
\* the scratch file is removed when it exists.
EndCallKeepsScratchOnError(c, outcome, text, fault) ==
  [c EXCEPT !.pc = "done", !.outcome = outcome, !.text = text, !.fault = fault,
            !.scratch = IF fault = "" THEN 0 ELSE @]
EndCall(c, outcome, text, fault) ==
  [c EXCEPT !.pc = "done", !.outcome = outcome, !.text = text, !.fault = fault,
            !.scratch = 0]

\* write_file up to its first await (lines 72-82): mkstemp, the content is
\* written, and mkdir -p is run when the path has a directory part.
WriteFile(path, written) ==
  /\ CanCall("write_file")
  /\ LET c == [BeginCall("write_file", path) EXCEPT !.scratch = @ + 1, !.made = 1] IN
     IF written # "ok"
     THEN tc' = EndCall(c, "returned", "Error writing file: " \o written, written)
     ELSE IF Dirname(path) # "" /\ Dirname(path) # "."
     THEN tc' = [c EXCEPT !.pc = "mkdir"]
     ELSE tc' = [c EXCEPT !.pc = "upload"]

\* execute_command("mkdir -p ...") returns (its result is not looked at) or raises.
WriteMkdirDone(o) ==
  /\ tc.pc = "mkdir"
  /\ IF o = "ok"
     THEN tc' = [tc EXCEPT !.pc = "upload"]
     ELSE tc' = EndCall(tc, "returned", "Error writing file: " \o o, o)

\* upload_file returns or raises (lines 82-88).
WriteUploadDone(o) ==
  /\ tc.pc = "upload"
  /\ IF o = "ok"
     THEN tc' = EndCall(tc, "returned", "Successfully wrote to " \o tc.path, "")
     ELSE tc' = EndCall(tc, "returned", "Error writing file: " \o o, o)

\* read_file up to its await (lines 92-96): mkstemp, close, download_file.
ReadFile(path) ==
  /\ CanCall("read_file")
  /\ tc' = [BeginCall("read_file", path) EXCEPT !.scratch = @ + 1, !.made = 1,
                                                !.pc = "download"]

\* download_file returns or raises, then the local copy is read or the read
\* raises (lines 96-103).
ReadDownloadDone(o, read) ==
  /\ tc.pc = "download"
  /\ IF o # "ok" THEN tc' = EndCall(tc, "returned", "Error reading file: " \o o, o)
     ELSE IF read # "ok"
     THEN tc' = EndCall(tc, "returned", "Error reading file: " \o read, read)
     ELSE tc' = EndCall(tc, "returned", "content", "")

\* exec_command (lines 105-110): no try around the await.
ExecCommand ==
  /\ CanCall("exec_command")
  /\ tc' = [BeginCall("exec_command", "") EXCEPT !.pc = "exec"]

RenderExec(r) ==
  "Exit Code: " \o ToString(r[1]) \o "\nStdout: " \o r[2] \o "\nStderr: " \o r[3]

ExecCommandDone(r) ==
  /\ tc.pc = "exec"
  /\ tc' = [tc EXCEPT !.pc = "done", !.outcome = "returned", !.text = RenderExec(r)]

ExecCommandFail(o) ==
  /\ tc.pc = "exec"
  /\ tc' = [tc EXCEPT !.pc = "done", !.outcome = "raised", !.fault = o]

sandboxToolsRest == <<sbVars, loopVars, sup, mgrVars, bk, tm, wf, co>>

NextSandboxTools ==
  \/ \E d \in DeclaredLists : OfferTools(d) /\ UNCHANGED sandboxToolsRest
  \/ \E p \in Paths, w \in {"ok", "No space left on device"} : WriteFile(p, w) /\ UNCHANGED sandboxToolsRest
  \/ \E o \in {"ok"} \cup Faults : WriteMkdirDone(o) /\ UNCHANGED sandboxToolsRest
  \/ \E o \in {"ok"} \cup Faults : WriteUploadDone(o) /\ UNCHANGED sandboxToolsRest
  \/ \E p \in Paths : ReadFile(p) /\ UNCHANGED sandboxToolsRest
  \/ \E o \in {"ok"} \cup Faults, r \in {"ok", "codec can't decode"} :
       ReadDownloadDone(o, r) /\ UNCHANGED sandboxToolsRest
  \/ ExecCommand /\ UNCHANGED sandboxToolsRest
  \/ \E r \in ExecResults : ExecCommandDone(r) /\ UNCHANGED sandboxToolsRest
  \/ \E o \in Faults : ExecCommandFail(o) /\ UNCHANGED sandboxToolsRest

\* ======================================================================
\*        The delegated runs of one request and the request's sandbox
\* ======================================================================
MaxSharedOps == 3    \* tool calls the delegated runs of a request make in all

\* run before its first delegation: no sandbox yet, no delegated run, and no
\* operation on the sandbox so far.
InitShared ==
  co = [sandbox |-> NoSandbox, bound |-> [l \in Loops |-> NoSandbox],
        at |-> [l \in Loops |-> "off"], log |-> <<>>]

\* Line 213: `sandbox = await self._get_sandbox(session_id)` returned.
SharedRun(sb) ==
  /\ co.sandbox = NoSandbox
  /\ co' = [co EXCEPT !.sandbox = sb]

\* Lines 226-235 under asyncio.gather (277): each of the n delegate_to_agent
\* tasks calls _run_agent_loop(query, target_agent, instruction, sandbox) with
\* the `sandbox` of the enclosing run, and the loop's tools are closures over it.
SharedDelegateOwnSandbox(n) ==
  /\ co.sandbox # NoSandbox
  /\ \A l \in Loops : co.at[l] = "off"
  /\ co' = [co EXCEPT !.bound = [l \in Loops |-> IF l <= n THEN l ELSE NoSandbox],
                      !.at = [l \in Loops |-> IF l <= n THEN "idle" ELSE "off"]]
SharedDelegate(n) ==
  /\ co.sandbox # NoSandbox
  /\ \A l \in Loops : co.at[l] = "off"
  /\ co' = [co EXCEPT !.bound = [l \in Loops |-> IF l <= n THEN co.sandbox ELSE NoSandbox],
                      !.at = [l \in Loops |-> IF l <= n THEN "idle" ELSE "off"]]

\* A delegated run calls one of its sandbox tools, which runs up to its first
\* await on the sandbox: write_file in mkdir -p (line 80; in upload_file when the
\* path has no directory part), read_file in download_file (96), exec_command in
\* execute_command (107). No lock is taken anywhere on the way.
SharedCall(l, op) ==
  /\ co.at[l] = "idle"
  /\ Len(co.log) < MaxSharedOps
  /\ co' = [co EXCEPT !.at[l] = op,
                      !.log = Append(@, [agent |-> l, op |-> op, sandbox |-> co.bound[l]])]

\* The awaited operation returned: write_file goes on from mkdir to upload_file
\* (line 82), every other operation ends its tool call.
SharedOpDone(l) ==
  /\ co.at[l] \notin {"off", "idle"}
  /\ IF co.at[l] = "mkdir"
     THEN co' = [co EXCEPT !.at[l] = "upload",
                           !.log = Append(@, [agent |-> l, op |-> "upload",
                                              sandbox |-> co.bound[l]])]
     ELSE co' = [co EXCEPT !.at[l] = "idle"]

sharedRest == <<sbVars, loopVars, sup, mgrVars, bk, tm, wf, tc>>

NextShared ==
  \/ \E sb \in Ids : SharedRun(sb) /\ UNCHANGED sharedRest
  \/ \E n \in Loops : SharedDelegate(n) /\ UNCHANGED sharedRest
  \/ \E l \in Loops, op \in {"mkdir", "upload", "download", "exec"} :
       SharedCall(l, op) /\ UNCHANGED sharedRest
  \/ \E l \in Loops : SharedOpDone(l) /\ UNCHANGED sharedRest

\* ======================================================================
\*                  CoworkRunner.run (the supervisor)
\* ======================================================================
max_supervisor_turns == 5

\* The agent names a model may put in a delegate call: two registered agents and
\* one that is not registered.
TargetNames == {"researcher", "coder", "nobody"}

\* The tool calls of a supervisor response: delegate calls whose payload is a
\* well-formed {agent_name, instruction}, parses without fitting the parameters,
\* or is not JSON; and calls of a tool other than delegate_to_agent.
SupCallKinds ==
  {<<"delegate_to_agent", <<"valid", a>>>> : a \in TargetNames}
    \cup {<<"delegate_to_agent", <<"badshape">>>>,
          <<"delegate_to_agent", <<"unparsable">>>>,
          <<"search", <<"valid">>>>}
SupKindSeqs == UNION {[1..n -> SupCallKinds] : n \in 0..MaxDelegations}
MkSupCalls(ks, turn) ==
  [i \in 1..Len(ks) |->
     [id |-> <<turn, i>>, name |-> ks[i][1],
      arguments |-> IF ks[i][1] = "delegate_to_agent" /\ ks[i][2][1] = "valid"
                    THEN ks[i][2] \o <<"task", ToString(turn), ToString(i)>>
                    ELSE ks[i][2]]]
SupDefaultKinds == << <<"delegate_to_agent", <<"valid", "coder">>>> >>

\* The parsed arguments of a delegate call.
ArgAgent(args) == args[2]
ArgInstruction(args) == SubSeq(args, 3, Len(args))

vars == <<sbVars, loopVars, sup, extVars>>

OffSup ==
  [pc |-> "off", req_messages |-> <<>>, turn |-> 0, invoked |-> 0,
   msg |-> Msg("assistant", <<>>), tasks |-> <<>>, tool_calls_to_process |-> <<>>,
   yielded |-> <<>>, error |-> "", ended |-> "", dflt |-> "final",
   launched |-> 0, order |-> <<>>, atLaunch |-> <<0, 0>>]

\* Lines 215-224, then the first model invocation (line 257).
BeginSup(dflt) ==
  [OffSup EXCEPT !.pc = "invoke", !.invoked = 1, !.dflt = dflt,
                 !.req_messages = <<Msg("system", <<"system_prompt", "supervisor">>),
                                    Msg("user", <<"Help me code">>)>>]

\* Lines 265-274 from call i on: each delegate call has its payload parsed and
\* bound (either may raise, and the exception leaves run), its coroutine and call
\* collected, and its progress message yielded; other calls are skipped.
RECURSIVE CollectDelegations(_, _)
CollectDelegations(st, i) ==
  IF i > Len(st.msg.tool_calls) THEN st
  ELSE LET call == st.msg.tool_calls[i] IN
       IF call.name # "delegate_to_agent" THEN CollectDelegations(st, i + 1)
       ELSE LET args == JsonLoads(call.arguments) IN
            IF ~args.ok THEN [st EXCEPT !.pc = "raised", !.error = args.error]
            ELSE IF ~BindsArgs(args.value)
                 THEN [st EXCEPT !.pc = "raised", !.error = "TypeError"]
                 ELSE CollectDelegations(
                        [st EXCEPT
                           !.tasks = Append(@, args.value),
                           !.tool_calls_to_process = Append(@, call),
                           !.yielded = Append(@, Msg("assistant",
                                          <<"Delegating to ", ArgAgent(args.value)>>))],
                        i + 1)

\* delegate_to_agent up to its first suspension (lines 228-234): an agent that is
\* not registered returns at once without any model invocation; a registered one
\* starts its _run_agent_loop.
LaunchTaskNoRegistryCheck(args) ==
  IF ArgAgent(args) \notin AgentNames
  THEN [OffLoop EXCEPT !.pc = "raised", !.agent = ArgAgent(args), !.error = "KeyError"]
  ELSE BeginLoop(ArgAgent(args), ArgInstruction(args), "final")
LaunchTask(args) ==
  IF ArgAgent(args) \notin AgentNames
  THEN [OffLoop EXCEPT !.pc = "returned", !.agent = ArgAgent(args),
                       !.result = <<"Agent ", ArgAgent(args), " not found.">>]
  ELSE BeginLoop(ArgAgent(args), ArgInstruction(args), "final")

\* What the task of a finished delegate_to_agent call returns (lines 229, 235).
TaskResult(st) ==
  IF st.agent \notin AgentNames THEN st.result
  ELSE <<"Agent ", st.agent, " result: ">> \o st.result

Finished(st) == st.pc \in {"returned", "raised"}

\* The loops that finish at once when launched, in launch order.
RECURSIVE FinishedAtLaunch(_, _)
FinishedAtLaunch(tasks, i) ==
  IF i > Len(tasks) THEN <<>>
  ELSE (IF Finished(LaunchTask(tasks[i])) THEN <<i>> ELSE <<>>)
         \o FinishedAtLaunch(tasks, i + 1)

\* `for _ in range(max_supervisor_turns)` is exhausted after the turn-th iteration.
SupRangeExhaustedLate(turn) == turn >= max_supervisor_turns + 1
SupRangeExhausted(turn) == turn >= max_supervisor_turns

\* invoke_llm returned the supervisor's response (lines 261-294 up to the next
\* suspension): no tool calls, or none for delegate_to_agent: the response is
\* yielded and run ends. Otherwise the delegations are collected and
\* asyncio.gather starts one task per delegation.
SupModelReturn(ks) ==
  /\ sup.pc = "invoke"
  /\ LET isDefault == ks = (IF sup.dflt = "delegate" THEN SupDefaultKinds ELSE <<>>)
         turn == sup.turn + 1
         calls == MkSupCalls(ks, turn)
         content == IF ks = <<>> THEN <<"Task complete">> ELSE <<"">>
         msg == AssistantMsg(content, calls)
         st == CollectDelegations(
                 [sup EXCEPT !.turn = turn, !.msg = msg, !.tasks = <<>>,
                             !.tool_calls_to_process = <<>>, !.launched = 0,
                             !.order = <<>>], 1)
     IN /\ isDefault \/ ~deviated
        /\ deviated' = (deviated \/ ~isDefault)
        /\ IF st.pc = "raised"
           THEN sup' = st /\ UNCHANGED lp
           ELSE IF st.tasks = <<>>
                THEN /\ sup' = [st EXCEPT !.pc = "done", !.ended = "final",
                                          !.yielded = Append(@, msg)]
                     /\ UNCHANGED lp
                ELSE /\ sup' = [st EXCEPT !.pc = "gather",
                                          !.launched = Len(st.tasks),
                                          !.order = FinishedAtLaunch(st.tasks, 1),
                                          !.atLaunch = <<Len(st.req_messages), st.invoked>>]
                     /\ lp' = [l \in Loops |->
                                 IF l <= Len(st.tasks) THEN LaunchTask(st.tasks[l])
                                 ELSE OffLoop]

\* invoke_llm raised in the supervisor's own invocation: the exception leaves run.
SupModelFail ==
  /\ sup.pc = "invoke"
  /\ sup' = [sup EXCEPT !.pc = "raised", !.error = "ModelError"]
  /\ UNCHANGED <<lp, deviated>>

\* The tasks gather started for the current turn.
Launched == 1..sup.launched

\* asyncio.gather resumes its awaiter with the results once every task is done.
JoinReadyAny == \E l \in Launched : lp[l].pc = "returned"
JoinReady == \A l \in Launched : lp[l].pc = "returned"

\* results[i] is the result of the i-th task, whatever the order of completion.
ResultsInCompletionOrder ==
  [i \in 1..Len(sup.order) |-> TaskResult(lp[sup.order[i]])]
GatherResults == [i \in 1..Len(sup.tasks) |-> TaskResult(lp[i])]

\* Lines 277-288: gather returned; the response and one tool-result message per
\* delegation are appended; then the next iteration's model invocation, or the
\* end of the range (run ends without yielding anything more).
SupJoinReplacesHistory ==
  /\ sup.pc = "gather"
  /\ JoinReady
  /\ LET results == GatherResults
         joined == [i \in 1..Len(results) |->
                      ToolMsg(results[i], sup.tool_calls_to_process[i])]
         ms == <<sup.msg>> \o joined
     IN sup' = IF SupRangeExhausted(sup.turn)
               THEN [sup EXCEPT !.req_messages = ms, !.pc = "done", !.ended = "exhausted"]
               ELSE [sup EXCEPT !.req_messages = ms, !.pc = "invoke", !.invoked = @ + 1]
  /\ UNCHANGED <<lp, deviated>>
SupJoin ==
  /\ sup.pc = "gather"
  /\ JoinReady
  /\ LET results == GatherResults
         joined == [i \in 1..Len(results) |->
                      ToolMsg(results[i], sup.tool_calls_to_process[i])]
         ms == Append(sup.req_messages, sup.msg) \o joined
     IN sup' = IF SupRangeExhausted(sup.turn)
               THEN [sup EXCEPT !.req_messages = ms, !.pc = "done", !.ended = "exhausted"]
               ELSE [sup EXCEPT !.req_messages = ms, !.pc = "invoke", !.invoked = @ + 1]
  /\ UNCHANGED <<lp, deviated>>

\* gather (return_exceptions=False) propagates the first exception of a task to
\* its awaiter at once; the exception leaves run; the other tasks keep running.
SupGatherFail ==
  /\ sup.pc = "gather"
  /\ \E l \in Launched :
       /\ lp[l].pc = "raised"
       /\ sup' = [sup EXCEPT !.pc = "raised", !.error = lp[l].error]
  /\ UNCHANGED <<lp, deviated>>

\* A step of a delegated run; its completion is recorded in completion order.
TaskStep(l, A) ==
  /\ sup.pc \in {"gather", "raised"}
  /\ l \in Launched
  /\ A
  /\ sup' = [sup EXCEPT !.order = IF Finished(lp'[l]) THEN Append(@, l) ELSE @]

\* run starts with `await self._get_sandbox(session_id)`; the supervisor goes on
\* to its first model invocation when that returns, and the lifecycle error of a
\* failed start leaves run.
RunGetSandbox(s, dflt) ==
  /\ sup.pc = "off"
  /\ GetSandbox(1, s)
  /\ sup' = IF req'[1].pc = "returned" THEN BeginSup(dflt) ELSE sup
  /\ UNCHANGED loopVars

RunStartOk(dflt) ==
  /\ StartOk(1)
  /\ sup' = BeginSup(dflt)
  /\ UNCHANGED loopVars

RunStartFail ==
  /\ StartFail(1)
  /\ sup' = [sup EXCEPT !.pc = "raised", !.error = "LifecycleError"]
  /\ UNCHANGED loopVars

Init ==
  /\ InitSandbox
  /\ InitManager
  /\ InitBackend
  /\ InitTools
  /\ InitWorkflow
  /\ InitSandboxTools
  /\ InitShared
  /\ lp = [l \in Loops |-> OffLoop]
  /\ deviated = FALSE
  /\ sup = OffSup

NextRun ==
  \/ \E s \in Sessions, d \in {"final", "delegate"} : RunGetSandbox(s, d)
  \/ \E d \in {"final", "delegate"} : RunStartOk(d)
  \/ RunStartFail
  \/ \E ks \in SupKindSeqs : SupModelReturn(ks) /\ UNCHANGED <<sbVars, extVars>>
  \/ SupModelFail /\ UNCHANGED <<sbVars, extVars>>
  \/ SupJoin /\ UNCHANGED <<sbVars, extVars>>
  \/ SupGatherFail /\ UNCHANGED <<sbVars, extVars>>
  \/ \E l \in Loops, ks \in KindSeqs : TaskStep(l, ModelReturn(l, ks)) /\ UNCHANGED <<sbVars, extVars>>
  \/ \E l \in Loops : TaskStep(l, ModelFail(l)) /\ UNCHANGED <<sbVars, extVars>>
  \/ \E l \in Loops, o \in {"ok", "raise"} : TaskStep(l, ToolReturn(l, o)) /\ UNCHANGED <<sbVars, extVars>>

SpecSandbox == Init /\ [][NextSandbox]_vars
SpecLoop == Init /\ [][NextLoop]_vars
SpecRun == Init /\ [][NextRun]_vars
SpecManager == Init /\ [][NextManager]_vars
SpecBackend == Init /\ [][NextBackend]_vars
SpecTools == Init /\ [][NextTools]_vars
SpecLoaders == Init /\ [][NextLoaders]_vars
SpecWorkflow == Init /\ [][NextWorkflow]_vars
SpecSandboxTools == Init /\ [][NextSandboxTools]_vars
SpecShared == Init /\ [][NextShared]_vars

\* ------------------------------------------------------------ join helpers
IsDelegate(call) == call.name = "delegate_to_agent"

\* The supervisor has resumed from the gather of its latest delegating turn with
\* the results.
PostJoin == sup.pc \in {"invoke", "done"} /\ sup.launched > 0

\* The text the delegated run of a call contributes: loop i ran the agent and the
\* instruction of the call's payload, and the text is the one delegate_to_agent
\* makes of that loop's result.
IsResultOf(content, call, i) ==
  LET args == JsonLoads(call.arguments).value
      a == ArgAgent(args)
  IN /\ lp[i].agent = a
     /\ lp[i].pc = "returned"
     /\ IF a \in AgentNames
        THEN /\ lp[i].messages[2].content = ArgInstruction(args)
             /\ content = <<"Agent ", a, " result: ">> \o lp[i].result
        ELSE content = <<"Agent ", a, " not found.">>

\* ------------------------------------------------------------------ C3
\* C3: when the supervisor resumes from the gather of a response that carried n
\* delegate calls c1..cn, its history has grown by the response followed by exactly
\* n tool-result messages, the i-th with the call id of ci and the result of ci's
\* delegated run, whatever the order in which the runs completed.
C3_JoinInCallOrder ==
  PostJoin =>
    LET calls == SelectSeq(sup.msg.tool_calls, IsDelegate)
        n == Len(calls)
        m == Len(sup.req_messages)
    IN /\ n = Len(sup.tasks)
       /\ m = sup.atLaunch[1] + 1 + n
       /\ sup.req_messages[m - n] = sup.msg
       /\ \A i \in 1..n :
            /\ sup.req_messages[m - n + i].role = "tool"
            /\ sup.req_messages[m - n + i].tool_call_id = calls[i].id
            /\ sup.req_messages[m - n + i].name = "delegate_to_agent"
            /\ IsResultOf(sup.req_messages[m - n + i].content, calls[i], i)

\* Two delegated runs joined after the second one completed first.
C3_Witness ==
  /\ PostJoin
  /\ Len(sup.tasks) = 2
  /\ sup.order = <<2, 1>>
  /\ lp[1].invoked >= 1 /\ lp[2].invoked >= 1

\* ------------------------------------------------------------------ C4
\* C4: while some delegated run of the turn has not completed, the supervisor has
\* appended nothing to its history and made no model invocation since it
\* launched the runs, and it is not in a model invocation.
C4_FanInBarrier ==
  (\E l \in Launched : ~Finished(lp[l])) =>
     /\ sup.pc \in {"gather", "raised"}
     /\ Len(sup.req_messages) = sup.atLaunch[1]
     /\ sup.invoked = sup.atLaunch[2]

\* One delegated run has completed, another is still running, the supervisor waits.
C4_Witness ==
  /\ sup.pc = "gather"
  /\ \E l \in Launched : lp[l].pc = "returned" /\ lp[l].invoked >= 1
  /\ \E l \in Launched : ~Finished(lp[l])

\* ------------------------------------------------------------------ C9
\* C9: once every delegated run of a turn has completed and the supervisor has
\* resumed from the gather, each run has contributed exactly one tool-result
\* message at its call position: its result, or the text of its fault.
C9_EveryRunJoined ==
  (sup.launched > 0 /\ sup.pc # "gather" /\ \A l \in Launched : Finished(lp[l])) =>
    LET n == Len(sup.tasks)
        m == Len(sup.req_messages)
    IN /\ m = sup.atLaunch[1] + 1 + n
       /\ \A i \in 1..n :
            /\ sup.req_messages[m - n + i].role = "tool"
            /\ sup.req_messages[m - n + i].tool_call_id = sup.tool_calls_to_process[i].id
            /\ lp[i].pc = "returned" =>
                 sup.req_messages[m - n + i].content = TaskResult(lp[i])

\* ------------------------------------------------------------------ C10
\* C10: the only faults that leave run are model-invocation failures and sandbox
\* lifecycle failures.
C10_OnlyModelAndLifecycleFaultsPropagate ==
  sup.pc = "raised" => sup.error \in {"ModelError", "LifecycleError"}

\* ------------------------------------------------------------------ C11
\* C11: in a turn that delegates to an agent that is not registered, that branch
\* returns "Agent <name> not found." at once, with no model invocation and
\* without raising; the sibling delegations of the turn run their own agent on
\* their own instruction; and when the supervisor resumes from the gather the
\* not-found text is the tool result at the call's position.
C11_UnknownAgentInline ==
  \A l \in Launched :
    ArgAgent(sup.tasks[l]) \notin AgentNames =>
      /\ lp[l].pc = "returned"
      /\ lp[l].invoked = 0
      /\ TaskResult(lp[l]) = <<"Agent ", ArgAgent(sup.tasks[l]), " not found.">>
      /\ \A k \in Launched :
            ArgAgent(sup.tasks[k]) \in AgentNames =>
              /\ lp[k].pc # "off"
              /\ lp[k].agent = ArgAgent(sup.tasks[k])
              /\ lp[k].messages[2].content = ArgInstruction(sup.tasks[k])
      /\ PostJoin =>
            LET m == Len(sup.req_messages)
                n == Len(sup.tasks)
            IN /\ sup.req_messages[m - n + l].role = "tool"
               /\ sup.req_messages[m - n + l].tool_call_id = sup.tool_calls_to_process[l].id
               /\ sup.req_messages[m - n + l].content =
                    <<"Agent ", ArgAgent(sup.tasks[l]), " not found.">>

\* A turn delegating to an unregistered agent and to a registered one was joined:
\* the sibling ran its model, the not-found text sits at the first call's position.
C11_Witness ==
  /\ PostJoin
  /\ Len(sup.tasks) = 2
  /\ ArgAgent(sup.tasks[1]) = "nobody"
  /\ ArgAgent(sup.tasks[2]) \in AgentNames
  /\ lp[2].invoked >= 1 /\ lp[2].pc = "returned"
  /\ sup.req_messages[Len(sup.req_messages) - 1].content = <<"Agent ", "nobody", " not found.">>

\* ------------------------------------------------------------------ C12
\* C12: when shutdown has ended, normally or by a failure, it has attempted to
\* destroy every sandbox that was registered when it was called: a failing stop
\* of one entry does not keep the sweep from the remaining entries.
C12_ShutdownSweepsAll ==
  sh.pc \in {"done", "raised"} =>
    \A i \in 1..Len(sh.snapshot) : sh.snapshot[i] \in sh.attempted

\* ------------------------------------------------------------------ C13
\* C13: create_sandbox registers only after start() succeeded: the step in which
\* a call returns adds exactly the call's fresh id, not registered before, to
\* the registry, the started instance is what is returned, and no id is
\* registered while its start() is pending; the step in which a call raises
\* (start() failed, or the type is unknown) leaves the registry unchanged.
C13_RegisterAfterStart ==
  [][\A p \in Creators :
       /\ (cr[p].pc = "starting" /\ cr'[p].pc = "returned") =>
            /\ cr[p].id \notin instances
            /\ instances' = instances \cup {cr[p].id}
            /\ keys' = Append(keys, cr[p].id)
            /\ container_id'[cr[p].id]
            /\ cr'[p].ret = cr[p].id
       /\ (cr[p].pc # "raised" /\ cr'[p].pc = "raised") =>
            /\ instances' = instances
            /\ keys' = keys
            /\ cr'[p].ret = NoSandbox
            /\ cr'[p].error \in {"LifecycleError", "ValueError"}
       /\ cr'[p].pc = "starting" => cr'[p].id \notin instances'
    ]_vars

\* One call returned its registered sandbox while another call's start() failed
\* and left nothing behind.
C13_Witness ==
  \E p, q \in Creators :
    /\ cr[p].pc = "returned" /\ cr[p].ret \in instances
    /\ cr[q].pc = "raised" /\ cr[q].error = "LifecycleError"
    /\ cr[q].id \notin instances

\* ------------------------------------------------------------------ C14
\* C14: destroy_sandbox(id) on an id that is not registered ends at once without
\* raising, stops nothing and leaves the registry unchanged; the step in which a
\* call on a registered id completes removes exactly that entry, the other
\* entries keeping their place, and leaves that sandbox stopped; and a
\* get_sandbox call returns the registered instance or none without changing the
\* registry.
C14_DestroyFrame ==
  [][/\ \A d \in Destroyers :
          /\ (dst[d].pc = "idle" /\ dst'[d].pc # "idle" /\ dst'[d].id \notin instances) =>
               /\ dst'[d].pc = "done"
               /\ instances' = instances /\ keys' = keys
               /\ container_id' = container_id
          /\ (dst[d].pc # "done" /\ dst'[d].pc = "done" /\ dst'[d].id \in instances) =>
               /\ instances' = instances \ {dst'[d].id}
               /\ keys' = DelKey(keys, dst'[d].id)
               /\ ~container_id'[dst'[d].id]
          /\ (dst[d].pc # "done" /\ dst'[d].pc = "done") => dst'[d].id \notin instances'
     /\ got' # got =>
          /\ instances' = instances /\ keys' = keys
          /\ got'[2] = (IF got'[1] \in instances THEN got'[1] ELSE NoSandbox)
    ]_vars

\* A created sandbox was destroyed and is gone and stopped, while another one is
\* still registered and was found by a lookup.
C14_Witness ==
  \E d \in Destroyers, p \in Creators :
    /\ dst[d].pc = "done" /\ cr[p].ret = dst[d].id
    /\ dst[d].id \notin instances /\ ~container_id[dst[d].id]
    /\ instances # {}
    /\ got[2] \in instances

\* ------------------------------------------------------------------ C18
\* C18: every create_sandbox("firecracker") call builds a Docker-backed sandbox
\* and logs the fallback warning once for it; the sandbox it returns is the one it
\* started and registered; a warning is logged for no other call; and a call with
\* any other unsupported type raises ValueError without building or registering
\* anything.
C18_SubstitutionIsSignalled ==
  /\ \A p \in Creators :
       cr[p].pc # "idle" =>
         /\ cr[p].type = "firecracker" =>
              /\ cr[p].backend = "DockerSandbox"
              /\ cr[p].pc = "raised" => cr[p].error = "LifecycleError"
              /\ cr[p].pc = "returned" =>
                   /\ cr[p].ret = cr[p].id
                   /\ \/ cr[p].id \in instances /\ container_id[cr[p].id]
                      \/ \E d \in Destroyers : dst[d].pc # "idle" /\ dst[d].id = cr[p].id
                      \/ cr[p].id \in sh.attempted
         /\ (cr[p].type = "firecracker") <=> (cr[p].id \in SeqRange(warnings))
         /\ cr[p].type \notin {"firecracker", "docker"} =>
              /\ cr[p].pc = "raised" /\ cr[p].error = "ValueError"
              /\ cr[p].backend = "none"
              /\ cr[p].id \notin instances
  /\ Len(warnings) = Cardinality({p \in Creators : cr[p].type = "firecracker"})

\* A firecracker request returned a registered, running Docker-backed sandbox,
\* with its warning logged, while a request of an unknown type was rejected.
C18_Witness ==
  \E p, q \in Creators :
    /\ cr[p].type = "firecracker" /\ cr[p].pc = "returned"
    /\ cr[p].ret \in instances /\ container_id[cr[p].ret]
    /\ warnings = <<cr[p].id>>
    /\ cr[q].type = "qemu" /\ cr[q].pc = "raised"

\* ------------------------------------------------------------------ C15
\* C15: a stop() call on a backend with no container (already stopped, or never
\* started) returns at once without raising, spawns no teardown and leaves the
\* backend's state as it was; so a second stop() changes nothing after a first.
C15_StopIdempotent ==
  [][(bk.pc = "idle" /\ ~bk.container_id
        /\ bk'.calls = bk.calls + 1 /\ bk'.op = "stop") =>
       /\ bk'.pc = "idle" /\ bk'.outcome = "ok" /\ ~bk'.spawned
       /\ bk'.teardowns = bk.teardowns
       /\ bk'.container_id = bk.container_id
       /\ bk'.life = bk.life /\ bk'.proc = bk.proc /\ bk'.copies = bk.copies
    ]_vars

\* stop() returned from a backend that an earlier stop() had already torn down:
\* one teardown only.
C15_Witness ==
  /\ bk.pc = "idle" /\ bk.op = "stop" /\ bk.outcome = "ok" /\ ~bk.spawned
  /\ bk.life = "stopped" /\ bk.teardowns = 1 /\ ~bk.container_id

\* ------------------------------------------------------------------ C16
\* C16: an execute_command call that timed out has returned (-1, "", a non-empty
\* stderr) without raising, and the command's process is not running any more
\* once the call has returned.
C16_TimeoutTerminatesProcess ==
  (bk.op = "execute_command" /\ bk.pc = "idle" /\ bk.result[1] < 0) =>
     /\ bk.outcome = "ok"
     /\ bk.result[1] = -1 /\ bk.result[2] = "" /\ bk.result[3] # ""
     /\ bk.proc \in {"dead", "exited"}

\* ------------------------------------------------------------------ C17
\* C17: an upload_file or download_file call on a backend with no container
\* (before start() succeeded, after a failed start(), after stop()) raises the
\* lifecycle error at once and spawns no copy.
C17_CopyNeedsRunningBackend ==
  [][(bk.pc = "idle" /\ ~bk.container_id /\ bk'.calls = bk.calls + 1
        /\ bk'.op \in {"upload_file", "download_file"}) =>
       /\ bk'.pc = "idle" /\ bk'.outcome = "raised" /\ ~bk'.spawned
       /\ bk'.copies = bk.copies
       /\ bk'.container_id = bk.container_id
       /\ bk.life \in {"new", "start_failed", "stopped"}
    ]_vars

\* One backend has refused a copy in each of the three situations and never
\* spawned one.
C17_Witness ==
  /\ bk.refused = {"new", "start_failed", "stopped"}
  /\ bk.copies = 0
  /\ bk.op \in {"upload_file", "download_file"} /\ bk.outcome = "raised"

\* ------------------------------------------------------------------ C19
\* C19: get_tool(name) returns the skill registered under name when there is one,
\* whatever the remote set holds for that name; otherwise the remote tool
\* registered under name; otherwise none.
C19_SkillFirstLookup ==
  tm.asked # "" =>
    LET skillHits == {i \in 1..Len(tm.skills) : tm.skills[i].name = tm.asked}
        remoteHits == {j \in 1..Len(tm.tools) : tm.tools[j].name = tm.asked}
    IN /\ skillHits # {} => \E i \in skillHits : tm.found = tm.skills[i]
       /\ (skillHits = {} /\ remoteHits # {}) => \E j \in remoteHits : tm.found = tm.tools[j]
       /\ (skillHits = {} /\ remoteHits = {}) => tm.found = NoLLMTool

\* A name registered in both sets with different descriptions was looked up and
\* the skill came back.
C19_Witness ==
  /\ tm.asked = "search"
  /\ \E i \in 1..Len(tm.skills), j \in 1..Len(tm.tools) :
       /\ tm.skills[i].name = "search" /\ tm.tools[j].name = "search"
       /\ tm.skills[i] # tm.tools[j]
       /\ tm.found = tm.skills[i]

\* ------------------------------------------------------------------ C20
\* C20: get_all_tools() returns the skills followed by the remote tools, nothing
\* removed: its length is the sum of the two sets' sizes, and a name registered
\* in both sets occupies two positions of the list.
C20_NoDeduplication ==
  tm.listed =>
    /\ Len(tm.all) = Len(tm.skills) + Len(tm.tools)
    /\ \A i \in 1..Len(tm.skills) : tm.all[i] = tm.skills[i]
    /\ \A j \in 1..Len(tm.tools) : tm.all[Len(tm.skills) + j] = tm.tools[j]
    /\ \A n \in ToolNames :
         (GetSkill(n) # NoLLMTool /\ McpGetTool(n) # NoLLMTool) =>
            Cardinality({k \in 1..Len(tm.all) : tm.all[k].name = n}) = 2

\* A name registered in both sets was listed twice.
C20_Witness ==
  /\ tm.listed
  /\ GetSkill("search") # NoLLMTool /\ McpGetTool("search") # NoLLMTool
  /\ Cardinality({k \in 1..Len(tm.all) : tm.all[k].name = "search"}) = 2
  /\ Len(tm.all) = 3

\* ------------------------------------------------------------------ C21
\* C21: a load_tools_from_server call that met a failure (a refused connection,
\* a non-success status, a body that is not JSON, JSON that is not an array of
\* tool objects) did not raise and left the remote registry as it was.
C21_FailedLoadIsSilent ==
  tm.load.failure => (tm.load.outcome = "returned" /\ ~tm.load.changed)

\* ------------------------------------------------------------------ C22
\* C22: load_skills_from_definition never raises; from an XML document it returns
\* exactly the <tool> children that have a non-empty <name> (and well-formed
\* parameters), in document order, a nameless <tool> among them being dropped;
\* from text that is not XML, the empty text included, it returns no skill.
C22_SkillParsingTolerant ==
  tm.parsed.outcome # "" =>
    LET doc == tm.parsed.doc
        got2 == tm.parsed.skills
        valid == {i \in 2..Len(doc) :
                    /\ doc[i].tag = "tool" /\ doc[i].name \in ToolNames
                    /\ doc[i].params = "ok"}
    IN /\ tm.parsed.outcome = "returned"
       /\ doc[1] # "xml" => got2 = <<>>
       /\ doc[1] = "xml" =>
            /\ Len(got2) = Cardinality(valid)
            /\ \A i \in valid :
                 got2[Cardinality({j \in valid : j <= i})].name = doc[i].name

\* A document whose first <tool> has no <name> and whose second is well formed
\* gave exactly the second.
C22_Witness ==
  /\ tm.parsed.doc[1] = "xml" /\ Len(tm.parsed.doc) = 3
  /\ tm.parsed.doc[2].tag = "tool" /\ tm.parsed.doc[2].name = "missing"
  /\ tm.parsed.doc[3].tag = "tool" /\ tm.parsed.doc[3].name = "fetch"
  /\ tm.parsed.skills = <<LLMTool("fetch", "d1")>>

C24_StartsWithStartAgent ==
  wf.calls # <<>> =>
    wf.calls[1].prompt = PreparePrompt(GetAgentByName(wf.agents, wf.start), wf.input)

\* ------------------------------------------------------------------ C26
\* C26: a write_file or read_file call that has ended made exactly one scratch
\* file and no scratch file exists any more, whether the call succeeded or a
\* local write, mkdir, upload, download or local read failed; while the call
\* runs there is the one file.
C26_ScratchRemoved ==
  /\ tc.scratch \in {0, 1}
  /\ (tc.pc = "done" /\ tc.tool \in {"write_file", "read_file"}) =>
       (tc.made = 1 /\ tc.scratch = 0)
  /\ tc.pc \in {"mkdir", "upload", "download"} => (tc.made = 1 /\ tc.scratch = 1)

\* A write_file call whose upload failed has ended, its scratch file gone.
C26_Witness ==
  /\ tc.pc = "done" /\ tc.tool = "write_file" /\ tc.fault = "Sandbox not started"
  /\ tc.made = 1 /\ tc.scratch = 0

\* ------------------------------------------------------------------ C27
\* C27: every sandbox-bound tool call that has ended returned a text and did not
\* raise, a failed backend operation included (exec_command's text being the
\* "Exit Code / Stdout / Stderr" rendering of the backend's result).
C27_ToolsNeverRaise ==
  tc.pc = "done" => (tc.outcome = "returned" /\ tc.text # "")

IsPrefix(s, t) == Len(s) <= Len(t) /\ SubSeq(t, 1, Len(s)) = s

\* The tool-result messages res answer calls of the response in the order of
\* the calls, each with its call's id and name.
InCallOrder(res, calls) ==
  \E f \in [1..Len(res) -> 1..Len(calls)] :
    /\ \A a, b \in 1..Len(res) : a < b => f[a] < f[b]
    /\ \A a \in 1..Len(res) :
         /\ res[a].role = "tool"
         /\ res[a].tool_call_id = calls[f[a]].id
         /\ res[a].name = calls[f[a]].name

\* The tool-result messages that directly follow message i of the history.
RECURSIVE RunAfter(_, _)
RunAfter(ms, i) ==
  IF i + 1 > Len(ms) \/ ms[i + 1].role # "tool" THEN <<>>
  ELSE <<ms[i + 1]>> \o RunAfter(ms, i + 1)

\* ------------------------------------------------------------------ C25
\* C25: in an agent loop a model response without tool calls ends the loop at
\* once: it is the last message of the history, the loop has returned its
\* content, no tool result follows it or is pending, and the model was invoked
\* once per response of the history and not again.
C25_FinalResponseEndsLoop ==
  \A l \in Loops :
    LET st == lp[l] IN
    \A i \in 1..Len(st.messages) :
      (st.messages[i].role = "assistant" /\ st.messages[i].tool_calls = <<>>) =>
        /\ i = Len(st.messages)
        /\ st.pc = "returned" /\ st.result = st.messages[i].content
        /\ st.tool_results = <<>>
        /\ st.invoked =
             Cardinality({k \in 1..Len(st.messages) : st.messages[k].role = "assistant"})

\* A loop that ran a tool turn and then got a response without tool calls.
C25_Witness ==
  \E l \in Loops :
    LET st == lp[l] IN
    /\ st.pc = "returned" /\ st.invoked = 2 /\ Len(st.messages) >= 5
    /\ st.messages[Len(st.messages)].role = "assistant"
    /\ st.messages[Len(st.messages)].tool_calls = <<>>
    /\ st.result = st.messages[Len(st.messages)].content

\* ------------------------------------------------------------------ C29
\* C29: in an agent loop the tool-result messages of a turn carry the id and the
\* name of their calls and stand in the order of the calls: the ones collected
\* during the turn, and in the history the ones that follow each response; every
\* tool-result message of the history follows the response that carried its call,
\* and none is pending while the model is invoked.
C29_ResultsInCallOrder ==
  \A l \in Loops :
    LET st == lp[l] IN
    /\ InCallOrder(st.tool_results, st.calls)
    /\ st.pc = "invoke" => st.tool_results = <<>>
    /\ \A i \in 1..Len(st.messages) :
         /\ st.messages[i].role = "assistant" =>
              InCallOrder(RunAfter(st.messages, i), st.messages[i].tool_calls)
         /\ st.messages[i].role = "tool" =>
              \E k \in 1..(i - 1) :
                /\ st.messages[k].role = "assistant"
                /\ \A m \in (k + 1)..i : st.messages[m].role = "tool"
                /\ \E c \in SeqRange(st.messages[k].tool_calls) :
                     c.id = st.messages[i].tool_call_id

\* A turn of two calls was answered by two tool results, in call order, and the
\* model is being invoked again.
C29_Witness ==
  \E l \in Loops :
    LET st == lp[l] IN
    /\ st.pc = "invoke" /\ st.turn = 1 /\ Len(st.messages) = 5
    /\ Len(st.messages[3].tool_calls) = 2
    /\ st.messages[4].tool_call_id = st.messages[3].tool_calls[1].id
    /\ st.messages[5].tool_call_id = st.messages[3].tool_calls[2].id
    /\ st.messages[5].name = st.messages[3].tool_calls[2].name

\* ------------------------------------------------------------------ C30
\* C30: every step extends the history of each agent loop and of the supervisor
\* at its end, or leaves it as it is: no message is removed, replaced or moved
\* (a finished or unused loop slot taken by a new _run_agent_loop call starts
\* that call's own history).
C30_AppendOnly ==
  [][/\ IsPrefix(sup.req_messages, sup'.req_messages)
     /\ \A l \in Loops :
          \/ IsPrefix(lp[l].messages, lp'[l].messages)
          \/ /\ lp[l].pc \in {"returned", "raised"}
             /\ lp'[l].turn = 0]_vars

\* The supervisor's history has grown by a response and its tool result, and a
\* delegated loop's history by a response.
C30_Witness ==
  /\ Len(sup.req_messages) >= 4 /\ sup.invoked >= 2
  /\ \E l \in Loops : Len(lp[l].messages) >= 3

\* ------------------------------------------------------ delegation helpers
\* The delegate calls of the responses ms[i..], in order.
RECURSIVE DelegateCallsOf(_, _)
DelegateCallsOf(ms, i) ==
  IF i > Len(ms) THEN <<>>
  ELSE SelectSeq(ms[i].tool_calls, IsDelegate) \o DelegateCallsOf(ms, i + 1)

\* The delegate calls of every response the supervisor has received: the ones of
\* its history and, until the turn is joined, the ones of the latest response.
ReceivedDelegations ==
  DelegateCallsOf(IF \E i \in 1..Len(sup.req_messages) : sup.req_messages[i] = sup.msg
                  THEN sup.req_messages
                  ELSE Append(sup.req_messages, sup.msg), 1)

\* The progress messages run has yielded.
IsProgress(m) == m.role = "assistant" /\ m.content[1] = "Delegating to "

\* ------------------------------------------------------------------ C31
\* C31: once the supervisor has gone through a response, it has emitted exactly
\* one progress message per delegate call of that response (and of the earlier
\* ones), in call order and naming the call's agent; the progress messages of a
\* turn are all emitted when its runs are launched, and the final message comes
\* after every progress message.
C31_ProgressPerDelegation ==
  (sup.pc \in {"gather", "done", "raised"} /\ sup.turn >= 1) =>
    LET progress == SelectSeq(sup.yielded, IsProgress)
        calls == ReceivedDelegations
    IN /\ Len(progress) = Len(calls)
       /\ \A k \in 1..Len(calls) :
            progress[k].content =
              <<"Delegating to ", ArgAgent(JsonLoads(calls[k].arguments).value)>>
       /\ \A k \in 1..Len(sup.yielded) :
            ~IsProgress(sup.yielded[k]) => k = Len(sup.yielded)

\* ------------------------------------------------------------------ C32
\* The steps a run can still take: a loop has max_turns iterations of at most one
\* model invocation and MaxCalls tool invocations each, the supervisor
\* max_supervisor_turns iterations of one model invocation, one launch and one
\* join each.
TurnCost == MaxCalls + 1
LoopRank(st) ==
  CASE st.pc = "invoke" -> (max_turns - st.turn) * TurnCost
    [] st.pc = "tool_wait" -> (max_turns - st.turn) * TurnCost + (Len(st.calls) - st.idx + 1)
    [] OTHER -> 0
RECURSIVE SumLoopRank(_)
SumLoopRank(l) == IF l = 0 THEN 0 ELSE LoopRank(lp[l]) + SumLoopRank(l - 1)
SupTurnCost == MaxDelegations * max_turns * TurnCost + 2
RunRank ==
  SumLoopRank(MaxDelegations) +
    CASE sup.pc = "off" -> max_supervisor_turns * SupTurnCost
                             + (IF req[1].pc = "starting" THEN 1 ELSE 2)
      [] sup.pc = "invoke" -> (max_supervisor_turns - sup.turn) * SupTurnCost
      [] sup.pc = "gather" -> (max_supervisor_turns - sup.turn) * SupTurnCost + 1
      [] OTHER -> 0

\* C32: the supervisor never makes more than max_supervisor_turns = 5 model
\* invocations of its own; the invocations of the delegated runs are counted
\* apart from them (no step changes both counts, and each delegated run stays
\* within its own max_turns = 10); and a run ends after a bounded number of
\* invocations: every step in which an invocation comes back uses up some of
\* what the two budgets leave, which is never negative.
C32_SeparateBudgets ==
  [][/\ sup'.invoked <= max_supervisor_turns
     /\ sup'.invoked <= sup'.turn + 1
     /\ \A l \in Loops :
          /\ lp'[l].invoked <= max_turns
          /\ lp'[l].invoked # lp[l].invoked => sup'.invoked = sup.invoked
     /\ RunRank' >= 0
     /\ RunRank' < RunRank]_vars

\* The supervisor used its five invocations, each of its turns delegating to runs
\* that invoked the model themselves, and the run has ended.
C32_Witness ==
  /\ sup.pc = "done" /\ sup.ended = "exhausted"
  /\ sup.invoked = max_supervisor_turns
  /\ \E l \in Loops : lp[l].pc = "returned" /\ lp[l].invoked >= 1

\* ------------------------------------------------------------------ C33
\* C33: a run that has ended without a fault emitted a final message last: the
\* model's response without tool calls, or, when the supervisor's turns were used
\* up, the fixed sentinel message.
C33_EndsWithFinalMessage ==
  sup.pc = "done" =>
    /\ sup.yielded # <<>>
    /\ LET last == sup.yielded[Len(sup.yielded)] IN
       \/ last.role = "assistant" /\ last.tool_calls = <<>> /\ last = sup.msg
       \/ sup.ended = "exhausted" /\ last.content = Sentinel

\* ------------------------------------------------------------------ C34
\* C34: when the start of the session's sandbox fails at the beginning of a
\* request, the lifecycle error leaves run, the model has not been invoked by the
\* supervisor or by any agent loop, nothing was emitted, and the session has no
\* entry in the session map (nor the failed sandbox one in the manager).
C34_ProvisioningFailureIsFatal ==
  req[1].pc = "raised" =>
    /\ sup.pc = "raised" /\ sup.error = "LifecycleError"
    /\ sup.invoked = 0 /\ sup.req_messages = <<>> /\ sup.yielded = <<>>
    /\ \A l \in Loops : lp[l].pc = "off" /\ lp[l].invoked = 0
    /\ sandbox_map[req[1].sid] = NoSandbox
    /\ instances = {}

\* The request's sandbox failed to start and run raised.
C34_Witness ==
  /\ req[1].pc = "raised" /\ req[1].creates = 1 /\ req[1].sid \in Sessions
  /\ sup.pc = "raised" /\ sup.error = "LifecycleError" /\ sup.invoked = 0
  /\ sandbox_map[req[1].sid] = NoSandbox

\* ------------------------------------------------------------------ C36
\* The session's key names a sandbox the manager no longer has.
StaleKey(s) == sandbox_map[s] # NoSandbox /\ sandbox_map[s] \notin instances

\* C36: no step of destroy_sandbox touches the session map, so the key of a
\* destroyed sandbox stays; a _get_sandbox call that finds such a key does not
\* return the destroyed sandbox but provisions a new one; and when that call
\* returns, the session's key is the new sandbox's id, which is registered and
\* was never destroyed.
C36_StaleKeyReplaced ==
  [][/\ (dst' # dst) => sandbox_map' = sandbox_map
     /\ \A p \in Procs :
          /\ (req[p].pc = "idle" /\ req'[p].pc # "idle" /\ StaleKey(req'[p].sid)) =>
               /\ req'[p].pc = "starting" /\ req'[p].creates = 1
               /\ req'[p].sb # sandbox_map[req'[p].sid]
               /\ req'[p].sb \notin {e.id : e \in destroyLog}
          /\ (req[p].pc = "starting" /\ req'[p].pc = "returned") =>
               /\ sandbox_map'[req'[p].sid] = req'[p].sb
               /\ req'[p].sb \in instances'
               /\ req'[p].sb \notin {e.id : e \in destroyLog'}]_vars

\* The session's first sandbox was destroyed; the next call provisioned a second
\* one and the session's key now names it.
C36_Witness ==
  \E p \in Procs :
    /\ req[p].pc = "returned" /\ req[p].creates = 1 /\ ~req[p].hadLive
    /\ \E id \in Ids :
         /\ owner[id] = req[p].sid /\ id # req[p].sb
         /\ id \notin instances /\ id \in {e.id : e \in destroyLog}
    /\ sandbox_map[req[p].sid] = req[p].sb
    /\ req[p].sb \in instances

\* ------------------------------------------------------------------ C37
\* C37: every tool call of an assistant message of the supervisor's history is
\* answered by exactly one tool-result message of the history with the call's
\* id; and a run that ended on a response without a delegate call emitted that
\* response last and appended nothing to the history for it.
C37_SupervisorCallsAnswered ==
  /\ \A i \in 1..Len(sup.req_messages) :
       \A j \in 1..Len(sup.req_messages[i].tool_calls) :
         Cardinality({k \in 1..Len(sup.req_messages) :
                        /\ sup.req_messages[k].role = "tool"
                        /\ sup.req_messages[k].tool_call_id =
                             sup.req_messages[i].tool_calls[j].id}) = 1
  /\ (sup.pc = "done" /\ sup.ended = "final") =>
       /\ sup.yielded[Len(sup.yielded)] = sup.msg
       /\ \A i \in 1..Len(sup.req_messages) : sup.req_messages[i] # sup.msg

\* ------------------------------------------------------------------ C38
\* The call of the current response at position j can be invoked: its name
\* resolves and its payload parses.
Invocable(st, j) ==
  /\ ResolveTool(st.tools, st.calls[j].name) # NoTool
  /\ JsonLoads(st.calls[j].arguments).ok

\* C38: while an agent loop waits for a tool invocation, it is the invocation
\* of one call of the response, the one at the loop's position: every invocable
\* call before it has already returned or faulted (its result is collected),
\* and no call from it on has a result, so none of them has begun.
C38_CallsOneAfterAnother ==
  \A l \in Loops :
    LET st == lp[l] IN
    st.pc = "tool_wait" =>
      /\ st.idx \in 1..Len(st.calls) /\ Invocable(st, st.idx)
      /\ \A j \in 1..Len(st.calls) :
           LET n == Cardinality({k \in 1..Len(st.tool_results) :
                                   st.tool_results[k].tool_call_id = st.calls[j].id})
           IN IF j < st.idx /\ Invocable(st, j) THEN n = 1 ELSE n = 0

\* The first call of a response has returned and the loop waits for the second.
C38_Witness ==
  \E l \in Loops :
    LET st == lp[l] IN
    /\ st.pc = "tool_wait" /\ st.idx = 2 /\ Len(st.calls) = 2
    /\ Len(st.tool_results) = 1
    /\ st.tool_results[1].tool_call_id = st.calls[1].id
    /\ st.tool_results[1].content[1] = "result of "

\* ------------------------------------------------------------------ C35
\* C35: every delegated run of a request works on the sandbox the request
\* acquired at its start: its tools are bound to it and every operation it
\* issues goes to it, with nothing keeping two runs' operations apart.
C35_SharedSandbox ==
  /\ \A l \in Loops : co.bound[l] \in {NoSandbox, co.sandbox}
  /\ \A l \in Loops : co.at[l] # "off" => co.bound[l] = co.sandbox
  /\ \A k \in 1..Len(co.log) : co.log[k].sandbox = co.sandbox

\* One run's command was issued on the sandbox between the mkdir and the upload
\* of another run's write_file, and both operations are in flight.
C35_Witness ==
  \E k \in 1..Len(co.log), a, b \in Loops :
    /\ a # b /\ k + 2 <= Len(co.log)
    /\ co.log[k].agent = a /\ co.log[k].op = "mkdir"
    /\ co.log[k + 1].agent = b /\ co.log[k + 1].op = "exec"
    /\ co.log[k + 2].agent = a /\ co.log[k + 2].op = "upload"
    /\ co.log[k].sandbox = co.log[k + 1].sandbox
    /\ co.at[a] = "upload" /\ co.at[b] = "exec"

====
